---- MODULE Spec2Model ----
(***************************************************************************)
(* Model of the laracasts downloader: the durable state store (cache),     *)
(* the chunked range transfer (downloadWithChunks / downloadChunk /        *)
(* BufferedFileWriter) and the episode orchestrator (DownloadSeries /      *)
(* downloadEpisode / tryDownload).                                         *)
(*                                                                         *)
(* Strings the code manipulates character by character (cache keys,        *)
(* slugs) are sequences of one-character strings, so that ReplaceAll,      *)
(* HasPrefix and TrimPrefix are computed, not assumed.                     *)
(***************************************************************************)
EXTENDS Integers, Sequences, FiniteSets, TLC

\* ------------------------------------------------------------------------
\* Bounds of the model (not program constants)
\* ------------------------------------------------------------------------
MaxCrashes == 1

\* ------------------------------------------------------------------------
\* Strings as character sequences
\* ------------------------------------------------------------------------
ReplaceAll(s, old, new) ==
  [i \in 1..Len(s) |-> IF s[i] = old THEN new ELSE s[i]]

HasPrefix(s, p) ==
  /\ Len(s) >= Len(p)
  /\ SubSeq(s, 1, Len(p)) = p

TrimPrefix(s, p) ==
  IF HasPrefix(s, p) THEN SubSeq(s, Len(p) + 1, Len(s)) ELSE s

SeriesUnderscore == <<"s", "e", "r", "i", "e", "s", "_">>
DownloadUnderscore == <<"d", "o", "w", "n", "l", "o", "a", "d", "_">>
SeriesSlash == <<"s", "e", "r", "i", "e", "s", "/">>
DownloadStatePrefix == DownloadUnderscore \o <<"s", "t", "a", "t", "e", "_">>

\* ------------------------------------------------------------------------
\* Cache (durable state store): paths and the entry encoding
\* ------------------------------------------------------------------------
Subdirs == <<"series", "downloads", "state">>

\* Cache.Set: key = ReplaceAll(key, "/", "_"); key = ReplaceAll(key, "\\", "_")
NormalizeKey(key) == ReplaceAll(ReplaceAll(key, "/", "_"), "\\", "_")

\* Cache.Set: the switch on the prefix of the (normalised) key
SubdirOf(nkey) ==
  IF HasPrefix(nkey, SeriesUnderscore) THEN "series"
  ELSE IF HasPrefix(nkey, DownloadUnderscore) THEN "downloads"
  ELSE "state"

\* filepath.Join(c.BasePath, subdir, name + ".json"): a path is the subdir
\* and the file name; a name containing "/" denotes a nested path.
JsonPath(subdir, name) == <<subdir>> \o name \o <<".json">>

\* Cache.Set: filePath
SetFilePath(key) == JsonPath(SubdirOf(NormalizeKey(key)), NormalizeKey(key))

\* the entry written in place, without a temporary file
SetTmpPath_InPlace(key) == SetFilePath(key)

\* Cache.Set: tmpFile
SetTmpPath(key) == SetFilePath(key) \o <<".tmp">>

\* json.MarshalIndent(CacheEntry{Data, Timestamp}): the bytes of an entry
Marshal(data, ts) == <<"{", data, ts, "}">>

\* json.Unmarshal into CacheEntry: fails on anything but a whole entry
Parsable(bytes) ==
  /\ Len(bytes) = 4
  /\ bytes[1] = "{"
  /\ bytes[4] = "}"

\* A file system is a function from a set of paths to byte sequences.
FileExists(fs, path) == path \in DOMAIN fs

WriteFile(fs, path, bytes) ==
  [p \in (DOMAIN fs) \cup {path} |-> IF p = path THEN bytes ELSE fs[p]]

Rename(fs, from, to) ==
  [p \in ((DOMAIN fs) \ {from}) \cup {to} |-> IF p = to THEN fs[from] ELSE fs[p]]

\* Cache.Get: the first subdir in which <key>.json exists (0 when none);
\* the key is used as given.
RECURSIVE GetFindFrom(_, _, _)
GetFindFrom(fs, key, i) ==
  IF i > Len(Subdirs) THEN 0
  ELSE IF FileExists(fs, JsonPath(Subdirs[i], key)) THEN i
  ELSE GetFindFrom(fs, key, i + 1)

\* Cache.Get: (found, data, err)
CacheGet(fs, key) ==
  LET i == GetFindFrom(fs, key, 1) IN
  IF i = 0 THEN [found |-> FALSE, data |-> 0, err |-> FALSE]
  ELSE LET bytes == fs[JsonPath(Subdirs[i], key)] IN
       IF Parsable(bytes)
       THEN [found |-> TRUE, data |-> bytes[2], err |-> FALSE]
       ELSE [found |-> FALSE, data |-> 0, err |-> TRUE]

\* Cache.Set, when nothing interrupts it: temp file written, then renamed
CacheSet(fs, key, data, ts) ==
  Rename(WriteFile(fs, SetTmpPath(key), Marshal(data, ts)),
         SetTmpPath(key), SetFilePath(key))

\* Cache.Clear: os.RemoveAll(BasePath), then the three subdirs recreated
EmptyFS == [p \in {} |-> <<>>]

VARIABLES
  files,      \* the cache directory: path -> bytes
  now,        \* wall clock
  setOp,      \* the Set call in progress (it holds the write lock)
  lastGet,    \* result of the latest Get call
  lastSet,    \* per key: the value of the latest Set that returned nil
  committed,  \* per path: the value of the latest completed rename
  crashes,    \* number of process crashes so far
  tiling,     \* one chunk computation: its inputs and its result
  srcSize,    \* per episode: the length of the remote resource
  disk,       \* per episode: the destination file
  chunks,     \* per episode: the chunk tasks of the running downloadWithChunks
  requested,  \* episodes of preDone for which a network request was issued
  main,       \* DownloadSeries: position, successCount, failedCount, result,
              \* how many counted items had exhausted a chunk's retries, and
              \* the exit status of the program that called it
  worker,     \* the episode workers of DownloadSeries
  jobs,       \* the jobs channel and its sender goroutine
  results,    \* the results channel
  ledger,     \* state.Completed of the running DownloadSeries
  queued,     \* episodesToDownload of the running DownloadSeries
  preDone,    \* episodes recorded complete with a non-empty file at run start
  preLost,    \* episodes recorded complete whose file was missing at run start
  run,        \* number of DownloadSeries calls so far
  slug,       \* the seriesSlug argument of the running DownloadSeries
  sink,       \* one BufferedFileWriter under concurrent WriteAt calls
  bit,        \* one DownloadAllBits run: its downloadBit goroutines
  fleet,      \* one DownloadAllSeries run: series, item workers, requests
  stale,      \* IsStale calls: the time of each key's latest Set, the last call
  clr,        \* Clear calls: the partitions, the call in progress, its ghosts
  video,      \* one DownloadVideo call: descriptor, strategy steps, outcome
  pool,       \* the buffer pool of one downloadWithChunks call
  bar,        \* the progress bar of one downloadWithChunks call and its chunk tasks
  topics,     \* one DownloadAllByTopics run: BasePath, the mutex, the topic goroutines
  allSeries,  \* one DownloadAllSeries run: the series goroutines and the summary
  ffmpeg,     \* one downloadWithFFmpeg call: process, pipes, readers, barMutex
  meta        \* one metadata lookup of DownloadSeries / downloadSeriesContent

cacheGhost == <<now, setOp, lastGet, lastSet, committed, crashes>>
cacheVars == <<files, now, setOp, lastGet, lastSet, committed, crashes>>
xferVars == <<srcSize, disk, chunks, requested>>
orchVars == <<main, worker, jobs, results, ledger, queued, preDone, preLost, run, slug>>
moreVars == <<bar, topics, allSeries, ffmpeg, meta>>
notBar == <<topics, allSeries, ffmpeg, meta>>
notTopics == <<bar, allSeries, ffmpeg, meta>>
notAllSeries == <<bar, topics, ffmpeg, meta>>
notFfmpeg == <<bar, topics, allSeries, meta>>
notMeta == <<bar, topics, allSeries, ffmpeg>>
extVars == <<stale, clr, video, pool, moreVars>>
auxVars == <<sink, bit, fleet, stale, clr, video, pool, moreVars>>

vars == <<files, now, setOp, lastGet, lastSet, committed, crashes, tiling,
          srcSize, disk, chunks, requested, main, worker, jobs, results, ledger, queued, preDone,
          preLost, run, slug, sink, bit, fleet, stale, clr, video, pool,
          bar, topics, allSeries, ffmpeg, meta>>

\* ------------------------------------------------------------------------
\* Program constants (scaled down: the source values are 20 MiB, 15, 3,
\* 32 KiB, 15, 200, 200, 3, 6 and 1 MiB; the model keeps MemoryBuffer <
\* ChunkSize)
\* ------------------------------------------------------------------------
ChunkSize == 3
MaxChunkWorkers == 2
MaxRetries == 3
MemoryBuffer == 2
MaxEpisodeWorkers == 2
JobBufferSize == 1
ResultsBufferSize == 1
EpisodeMaxRetries == 3
MaxSeriesConcurrent == 2
MinRemuxSize == 2
TopicSemSize == 2

\* ------------------------------------------------------------------------
\* Bounds of the transfer and orchestrator models
\* ------------------------------------------------------------------------
NumEpisodes == 2
MaxRuns == 2
SeriesFileSize == 1
MaxFileSize == 7
MaxTilingSize == 10
MaxTilingChunk == 6
NumSeries == 3
MaxClock == 3
NumPoolTasks == 3
MaxBarSize == 4
NumTopics == 3
NumSlugs == 1
MaxFfmpegLines == 2
MaxPipeLines == 1
MaxMetaTicks == 3
NumQueuedEpisodes == 5
MaxProgressive == 2
MaxQuality == 2
MaxRemuxSize == 3
MaxAgeBound == 2
NumFleetItems == 3
MaxSinkSize == 5

Episodes == 1..NumEpisodes

\* one worker goroutine per queued item
Workers_PerItem == 1..NumFleetItems

\* for w := 1; w <= MaxEpisodeWorkers; w++ { go func(id int) ... }
Workers == 1..MaxEpisodeWorkers

Min(a, b) == IF a < b THEN a ELSE b
Max(a, b) == IF a > b THEN a ELSE b

\* ------------------------------------------------------------------------
\* downloadWithChunks: the chunk computation
\* ------------------------------------------------------------------------
\* int(math.Ceil(float64(fileSize) / float64(chunkSize)))
NumChunks(fileSize, chunkSize) == (fileSize + chunkSize - 1) \div chunkSize

\* the chunk of index i with its end left unclamped
ChunkAt_NoClamp(i, fileSize, chunkSize) ==
  [start |-> i * chunkSize, end |-> i * chunkSize + chunkSize]

\* chunks[i] for the 0-based index i: start = i*chunkSize, end clamped
ChunkAt(i, fileSize, chunkSize) ==
  [start |-> i * chunkSize,
   end |-> IF i * chunkSize + chunkSize > fileSize
           THEN fileSize ELSE i * chunkSize + chunkSize]

ComputeChunks(fileSize, chunkSize) ==
  [k \in 1..NumChunks(fileSize, chunkSize) |-> ChunkAt(k - 1, fileSize, chunkSize)]

\* ------------------------------------------------------------------------
\* downloadChunk: one ranged fetch against one response of the server
\* ------------------------------------------------------------------------
\* A response: a transport error, a status other than 206, or a 206 whose
\* body delivers len bytes (the bytes of the source from offset start on)
\* and then ends cleanly ("eof") or with a read error ("err"); every Read
\* returns at most readSize bytes.
Responses(want) ==
  { [kind |-> "neterr", len |-> 0, tail |-> "eof", readSize |-> 1],
    [kind |-> "status", len |-> 0, tail |-> "eof", readSize |-> 1] }
  \cup [kind : {"body"}, len : 0..(want + 1), tail : {"eof", "err"},
        readSize : 1..MemoryBuffer]

\* the read loop: for written < end-start { n, err := reader.Read(buffer) ... }
\* returns whether an error is returned and the offsets WriteAt wrote
RECURSIVE ReadLoop(_, _, _, _, _, _)
ReadLoop(start, want, written, remaining, resp, offs) ==
  IF written >= want THEN [err |-> FALSE, offs |-> offs]
  ELSE IF remaining = 0
       THEN IF resp.tail = "err"
            THEN [err |-> TRUE, offs |-> offs]     \* err != nil && err != io.EOF
            ELSE [err |-> FALSE, offs |-> offs]    \* n == 0: break; return nil
       ELSE LET n == Min(Min(resp.readSize, MemoryBuffer), remaining) IN
            ReadLoop(start, want, written + n, remaining - n, resp,
                     offs \cup ((start + written)..(start + written + n - 1)))

DownloadChunk(start, end, resp) ==
  IF resp.kind # "body" THEN [err |-> TRUE, offs |-> {}]
  ELSE ReadLoop(start, end - start, 0, resp.len, resp, {})

\* ------------------------------------------------------------------------
\* The destination file and BufferedFileWriter
\* ------------------------------------------------------------------------
\* exists, size, filled: the file; open: its BufferedFileWriter is open;
\* closes: the Close calls on that writer; lateWrite: a WriteAt ran on the
\* writer after its Close
NoFile == [exists |-> FALSE, size |-> 0, filled |-> {}, open |-> FALSE,
           closes |-> 0, lateWrite |-> FALSE]

\* NewBufferedFileWriter: OpenFile(O_CREATE|O_WRONLY) and Truncate(size)
NewBufferedFileWriter(d, size) ==
  [exists |-> TRUE, size |-> size, filled |-> {o \in d.filled : o < size},
   open |-> TRUE, closes |-> 0, lateWrite |-> FALSE]

\* WriteAt for the writes of one downloadChunk call: seek to the offset and
\* write; a write past the end extends the file; on a closed file the seek
\* fails and nothing is written
WriteAt(d, offs) ==
  IF offs = {} THEN d
  ELSE IF ~d.open THEN [d EXCEPT !.lateWrite = TRUE]
  ELSE [d EXCEPT !.filled = @ \cup offs,
                 !.size = Max(@, (CHOOSE m \in offs : \A o \in offs : o <= m) + 1)]

\* Close: flush the buffer and close the file
Close(d) == [d EXCEPT !.open = FALSE, !.closes = @ + 1]

\* tryDownload: os.Stat(outputPath) succeeds and info.Size() > 0
FileHasContent(d) == d.exists /\ d.size > 0

\* the file holds the complete resource
FileComplete(d, size) ==
  /\ d.exists
  /\ d.size = size
  /\ d.filled = 0..(size - 1)

\* ------------------------------------------------------------------------
\* Slugs and the ledger keys of DownloadSeries
\* ------------------------------------------------------------------------
BareSlug == <<"f">>
SlugForms == {BareSlug, SeriesSlash \o BareSlug}

\* cleanSlug: strings.TrimPrefix(seriesSlug, "series/"), twice
CleanSlug(seriesSlug) == TrimPrefix(TrimPrefix(seriesSlug, SeriesSlash), SeriesSlash)

\* loadDownloadState(seriesSlug) / saveDownloadState(cleanSlug, state)
StateKey(s) == DownloadStatePrefix \o s

LoadDownloadState(fs, seriesSlug) ==
  LET r == CacheGet(fs, StateKey(seriesSlug)) IN
  IF r.err \/ ~r.found THEN [found |-> FALSE, completed |-> {}]
  ELSE [found |-> TRUE, completed |-> r.data]

\* a save that writes nothing
SaveDownloadState_Skip(fs, s, completed, ts) == fs

SaveDownloadState(fs, s, completed, ts) == CacheSet(fs, StateKey(s), completed, ts)

\* ascending sequence of a set of episode numbers (the order of the chapters)
RECURSIVE SeqOf(_)
SeqOf(S) ==
  IF S = {} THEN <<>>
  ELSE LET m == CHOOSE x \in S : \A y \in S : x <= y IN <<m>> \o SeqOf(S \ {m})

\* ------------------------------------------------------------------------
\* Idle values of the parts a specification does not exercise
\* ------------------------------------------------------------------------
IdleTiling == [fileSize |-> 0, chunkSize |-> 0, chunks |-> <<>>, done |-> FALSE]
IdleWorker == [pc |-> "exit", ep |-> 0, i |-> 0, err |-> FALSE, exh |-> FALSE]
IdleMain == [pc |-> "idle", success |-> 0, failed |-> 0, err |-> FALSE,
             exh |-> 0, exhFailed |-> 0, exit |-> 0]

TilingIdle == tiling = IdleTiling

XferGhostInit ==
  /\ requested = {}

OrchIdle ==
  /\ main = IdleMain
  /\ worker = [w \in Workers |-> IdleWorker]
  /\ jobs = [buf |-> <<>>, closed |-> FALSE, toSend |-> <<>>]
  /\ results = [buf |-> <<>>, closed |-> FALSE]
  /\ ledger = {}
  /\ queued = {}
  /\ preDone = {}
  /\ preLost = {}
  /\ run = 0
  /\ slug = BareSlug

XferIdle ==
  /\ srcSize = [e \in Episodes |-> SeriesFileSize]
  /\ disk = [e \in Episodes |-> NoFile]
  /\ chunks = [e \in Episodes |-> <<>>]
  /\ XferGhostInit

IdleSink == [size |-> 0, pos |-> 0, buf |-> <<>>, mu |-> 0, data |-> <<>>, task |-> <<>>]
IdleBit == [next |-> 0, onDisk |-> {}, task |-> <<>>]
IdleFleet == [next |-> 0, series |-> <<>>]
IdleStale == [wrote |-> <<>>, valid |-> FALSE, key |-> <<>>, maxAge |-> 0,
              at |-> 0, result |-> FALSE,
              expect |-> [valid |-> FALSE, data |-> 0]]
\* NewCache has created the three partitions; no Clear has been called
IdleClr == [pc |-> "idle", i |-> 0, dirs |-> {"series", "downloads", "state"},
            before |-> {}, last |-> <<>>, ret |-> "none"]
IdleVideo == [pc |-> "idle", ver |-> "chunked", prog |-> <<>>, hls |-> "none",
              dash |-> "none", xfer |-> "none", remux |-> "none",
              exit |-> 0, out |-> [exists |-> FALSE, size |-> 0],
              result |-> "none"]
IdlePool == [task |-> <<>>, free |-> {}]

IdleBar == [total |-> 0, reported |-> 0, task |-> <<>>]

IdleTopics == [pc |-> "idle", next |-> 0, sem |-> 0, mutex |-> 0,
               basePath |-> <<0, 0>>, original |-> <<0, 0>>,
               downloaded |-> <<>>, link |-> <<>>, completedTopics |-> 0,
               failedTopics |-> 0, err |-> FALSE, task |-> <<>>]

IdleAllSeries == [pc |-> "idle", next |-> 0, sem |-> 0, completedSeries |-> 0,
                  failedSeries |-> 0, err |-> FALSE, task |-> <<>>]

IdleFfmpeg ==
  [proc |-> "idle", exitOk |-> FALSE, outLeft |-> 0, errLeft |-> 0,
   outPipe |-> 0, errPipe |-> 0, errReader |-> "idle", outReader |-> "idle",
   durationFound |-> 0, barMutex |-> "free", main |-> "idle", err |-> FALSE]

IdleMeta ==
  [valid |-> FALSE, fn |-> "", hadEntry |-> FALSE, age |-> 0,
   fetched |-> FALSE, wrote |-> [valid |-> FALSE, data |-> 0], ticks |-> 0]

MoreIdle ==
  /\ meta = IdleMeta
  /\ ffmpeg = IdleFfmpeg
  /\ allSeries = IdleAllSeries
  /\ topics = IdleTopics
  /\ bar = IdleBar

BarOthersIdle ==
  /\ meta = IdleMeta
  /\ ffmpeg = IdleFfmpeg
  /\ allSeries = IdleAllSeries
  /\ topics = IdleTopics

TopicsOthersIdle ==
  /\ meta = IdleMeta
  /\ ffmpeg = IdleFfmpeg
  /\ allSeries = IdleAllSeries
  /\ bar = IdleBar

AllSeriesOthersIdle ==
  /\ meta = IdleMeta
  /\ ffmpeg = IdleFfmpeg
  /\ bar = IdleBar
  /\ topics = IdleTopics

FfmpegOthersIdle ==
  /\ meta = IdleMeta
  /\ bar = IdleBar
  /\ topics = IdleTopics
  /\ allSeries = IdleAllSeries

MetaOthersIdle ==
  /\ bar = IdleBar
  /\ topics = IdleTopics
  /\ allSeries = IdleAllSeries
  /\ ffmpeg = IdleFfmpeg

ExtIdle ==
  /\ MoreIdle
  /\ stale = IdleStale
  /\ clr = IdleClr
  /\ video = IdleVideo
  /\ pool = IdlePool

AuxIdle ==
  /\ sink = IdleSink
  /\ bit = IdleBit
  /\ fleet = IdleFleet
  /\ ExtIdle

\* ------------------------------------------------------------------------
\* The cache under Set / Get / Clear calls and process crashes
\* ------------------------------------------------------------------------
CacheKeys ==
  { <<"a", "_", "b">>, <<"a", "/", "b">>, SeriesUnderscore \o <<"x">> }
CacheValues == {1, 2}

NoOp == [pc |-> "idle", key |-> <<>>, data |-> 0, json |-> <<>>]
NoGet == [valid |-> FALSE, key |-> <<>>, found |-> FALSE, data |-> 0,
          err |-> FALSE, expect |-> [valid |-> FALSE, data |-> 0],
          torn |-> FALSE, prev |-> [valid |-> FALSE, data |-> 0]]
NoValue == [valid |-> FALSE, data |-> 0]

\* the value of the latest completed rename onto the file Get(key) reads
CommittedFor(c, fs, key) ==
  LET i == GetFindFrom(fs, key, 1) IN
  IF i # 0 /\ FileExists(c, JsonPath(Subdirs[i], key))
  THEN [valid |-> TRUE, data |-> c[JsonPath(Subdirs[i], key)]]
  ELSE NoValue

Init ==
  /\ files = EmptyFS
  /\ now = 0
  /\ setOp = NoOp
  /\ lastGet = NoGet
  /\ lastSet = [k \in CacheKeys |-> NoValue]
  /\ committed = EmptyFS
  /\ crashes = 0
  /\ TilingIdle
  /\ XferIdle
  /\ OrchIdle
  /\ AuxIdle

\* Set: lock, marshal the entry, os.WriteFile(tmpFile) creates/truncates it
SetBegin(key, data) ==
  /\ setOp.pc = "idle"
  /\ setOp' = [pc |-> "write", key |-> key, data |-> data,
               json |-> Marshal(data, now)]
  /\ files' = WriteFile(files, SetTmpPath(key), <<>>)
  /\ UNCHANGED <<now, lastGet, lastSet, committed, crashes>>
  /\ UNCHANGED <<tiling, xferVars, orchVars, auxVars>>

\* os.WriteFile: the bytes reach the temp file one after the other
SetWriteTmp ==
  /\ setOp.pc = "write"
  /\ LET tmp == SetTmpPath(setOp.key)
         n == Len(files[tmp]) IN
       /\ files' = WriteFile(files, tmp, SubSeq(setOp.json, 1, n + 1))
       /\ setOp' = [setOp EXCEPT !.pc = IF n + 1 = Len(setOp.json)
                                         THEN "rename" ELSE "write"]
  /\ UNCHANGED <<now, lastGet, lastSet, committed, crashes>>
  /\ UNCHANGED <<tiling, xferVars, orchVars, auxVars>>

\* os.Rename(tmpFile, filePath) succeeds
SetRename ==
  /\ setOp.pc = "rename"
  /\ files' = Rename(files, SetTmpPath(setOp.key), SetFilePath(setOp.key))
  /\ committed' = WriteFile(committed, SetFilePath(setOp.key), setOp.data)
  /\ setOp' = [setOp EXCEPT !.pc = "return"]
  /\ UNCHANGED <<now, lastGet, lastSet, crashes>>
  /\ UNCHANGED <<tiling, xferVars, orchVars, auxVars>>

\* os.Rename fails: the temp file is removed and Set returns an error
SetRenameFail ==
  /\ setOp.pc = "rename"
  /\ files' = [p \in (DOMAIN files) \ {SetTmpPath(setOp.key)} |-> files[p]]
  /\ setOp' = NoOp
  /\ UNCHANGED <<now, lastGet, lastSet, committed, crashes>>
  /\ UNCHANGED <<tiling, xferVars, orchVars, auxVars>>

\* Set returns nil and releases the lock
SetReturn ==
  /\ setOp.pc = "return"
  /\ lastSet' = [lastSet EXCEPT ![setOp.key] = [valid |-> TRUE, data |-> setOp.data]]
  /\ setOp' = NoOp
  /\ UNCHANGED <<files, now, lastGet, committed, crashes>>
  /\ UNCHANGED <<tiling, xferVars, orchVars, auxVars>>

\* Get: runs under the read lock, hence only while no Set holds the lock
Get(key) ==
  /\ setOp.pc = "idle"
  /\ LET r == CacheGet(files, key) IN
       lastGet' = [valid |-> TRUE, key |-> key, found |-> r.found,
                   data |-> r.data, err |-> r.err, expect |-> lastSet[key],
                   torn |-> /\ FileExists(files, SetTmpPath(key))
                            /\ ~Parsable(files[SetTmpPath(key)]),
                   prev |-> CommittedFor(committed, files, key)]
  /\ UNCHANGED <<files, now, setOp, lastSet, committed, crashes>>
  /\ UNCHANGED <<tiling, xferVars, orchVars, auxVars>>

\* Clear: RemoveAll(BasePath) and the subdirectories recreated
Clear ==
  /\ setOp.pc = "idle"
  /\ files' = EmptyFS
  /\ committed' = EmptyFS
  /\ lastSet' = [k \in CacheKeys |-> NoValue]
  /\ UNCHANGED <<now, setOp, lastGet, crashes>>
  /\ UNCHANGED <<tiling, xferVars, orchVars, auxVars>>

\* The process dies and is started again: locks and calls in progress are
\* gone, the files stay as they are.
Crash ==
  /\ crashes < MaxCrashes
  /\ crashes' = crashes + 1
  /\ setOp' = NoOp
  /\ UNCHANGED <<files, now, lastGet, lastSet, committed>>
  /\ UNCHANGED <<tiling, xferVars, orchVars, auxVars>>

CacheNext ==
  \/ \E key \in CacheKeys, data \in CacheValues : SetBegin(key, data)
  \/ SetWriteTmp
  \/ SetRename
  \/ SetRenameFail
  \/ SetReturn
  \/ \E key \in CacheKeys : Get(key)
  \/ Clear
  \/ Crash

SpecCache == Init /\ [][CacheNext]_vars

\* C8: a Get never fails to parse an entry, and what it finds is the value
\* of the latest completed rename onto that file (the previously committed
\* value), whatever Set calls a crash interrupted.
AtomicCacheCommit ==
  lastGet.valid =>
    /\ ~lastGet.err
    /\ lastGet.found => (lastGet.prev.valid /\ lastGet.prev.data = lastGet.data)

\* a Get of a key whose Set was cut short by a crash (torn temp file left)
WitnessAtomicCacheCommit ==
  /\ lastGet.valid
  /\ lastGet.torn
  /\ crashes > 0

\* C9: Get(key) after a Set(key, v) that returned nil finds v
StoreRoundTrip ==
  (lastGet.valid /\ lastGet.expect.valid) =>
    /\ lastGet.found
    /\ lastGet.data = lastGet.expect.data

\* ------------------------------------------------------------------------
\* The chunk computation on its own, over all small sizes
\* ------------------------------------------------------------------------
TilingInit ==
  /\ \E fs \in 1..MaxTilingSize, cs \in 1..MaxTilingChunk :
       tiling = [fileSize |-> fs, chunkSize |-> cs, chunks |-> <<>>, done |-> FALSE]
  /\ files = EmptyFS
  /\ now = 0
  /\ setOp = NoOp
  /\ lastGet = NoGet
  /\ lastSet = [k \in CacheKeys |-> NoValue]
  /\ committed = EmptyFS
  /\ crashes = 0
  /\ XferIdle
  /\ OrchIdle
  /\ AuxIdle

CalculateChunks ==
  /\ ~tiling.done
  /\ tiling' = [tiling EXCEPT !.chunks = ComputeChunks(tiling.fileSize, tiling.chunkSize),
                              !.done = TRUE]
  /\ UNCHANGED <<cacheVars, xferVars, orchVars, auxVars>>

TilingNext == CalculateChunks

SpecTiling == TilingInit /\ [][TilingNext]_vars

\* C4: the chunks are ceil(totalSize/chunkSize) non-empty half-open ranges
\* of at most chunkSize bytes, pairwise disjoint, whose union is
\* [0, totalSize).
TilingInvariant ==
  tiling.done =>
    LET cs == tiling.chunks
        n == Len(cs)
        total == tiling.fileSize
        size == tiling.chunkSize IN
      /\ (n - 1) * size < total
      /\ total <= n * size
      /\ \A k \in 1..n :
           /\ 0 <= cs[k].start
           /\ cs[k].start < cs[k].end
           /\ cs[k].end <= total
           /\ cs[k].end - cs[k].start <= size
      /\ \A j, k \in 1..n :
           j # k => (cs[j].end <= cs[k].start \/ cs[k].end <= cs[j].start)
      /\ \A o \in 0..(total - 1) :
           \E k \in 1..n : cs[k].start <= o /\ o < cs[k].end

\* a computation with several chunks, the last one shorter than chunkSize
WitnessTilingInvariant ==
  /\ tiling.done
  /\ Len(tiling.chunks) >= 3
  /\ tiling.chunks[Len(tiling.chunks)].end
       - tiling.chunks[Len(tiling.chunks)].start < tiling.chunkSize

\* ------------------------------------------------------------------------
\* downloadEpisode / tryDownload / DownloadVideo / downloadWithChunks
\* ------------------------------------------------------------------------
\* a worker that takes the next job without reporting an item that failed
AfterTry_DropFailure(wr, err) ==
  IF ~err THEN [wr EXCEPT !.pc = "send", !.err = FALSE]
  ELSE IF wr.i + 1 < EpisodeMaxRetries
       THEN [wr EXCEPT !.pc = "try", !.i = @ + 1]
       ELSE [IdleWorker EXCEPT !.pc = "recv"]

\* downloadEpisode: what follows a tryDownload that returned err
AfterTry(wr, err) ==
  IF ~err THEN [wr EXCEPT !.pc = "send", !.err = FALSE]
  ELSE IF wr.i + 1 < EpisodeMaxRetries
       THEN [wr EXCEPT !.pc = "try", !.i = @ + 1]
       ELSE [wr EXCEPT !.pc = "send", !.err = TRUE]

NewTask(c) ==
  [start |-> c.start, end |-> c.end, pc |-> "spawned", retry |-> 0,
   fetches |-> 0, fails |-> 0, oks |-> 0, failed |-> FALSE, short |-> FALSE]

\* resp.ContentLength of the HEAD response: the length of the resource, or
\* -1 when the response carries none
ProbeLength(head, size) == IF head = "nolength" THEN 0 - 1 ELSE size

\* a probe that rejects only a negative length
ProbeOk_AcceptEmpty(head, len) == head \in {"ok", "nolength"} /\ len >= 0

\* the HEAD request succeeded with status 200 and fileSize > 0
ProbeOk(head, len) == head \in {"ok", "nolength"} /\ len > 0

\* tryDownload up to the start of the chunk tasks: the os.Stat check,
\* GetVideoConfig, DownloadVideo, and in downloadWithChunks the HEAD request,
\* NewBufferedFileWriter and the chunk computation
TryDownload(w) ==
  /\ worker[w].pc = "try"
  /\ LET e == worker[w].ep IN
       \/ /\ FileHasContent(disk[e])
          /\ worker' = [worker EXCEPT ![w] = AfterTry(@, FALSE)]
          /\ UNCHANGED <<requested, disk, chunks>>
       \/ /\ ~FileHasContent(disk[e])
          /\ requested' = requested \cup ({e} \cap preDone)
          /\ \E cfg \in {"progressive", "error"},
                head \in {"error", "status", "nolength", "ok"} :
               IF cfg = "error" \/ ~ProbeOk(head, ProbeLength(head, srcSize[e]))
               THEN /\ worker' = [worker EXCEPT ![w] = AfterTry(@, TRUE)]
                    /\ UNCHANGED <<disk, chunks>>
               ELSE /\ disk' = [disk EXCEPT ![e] = NewBufferedFileWriter(@, srcSize[e])]
                    /\ chunks' = [chunks EXCEPT ![e] =
                          LET cs == ComputeChunks(srcSize[e], ChunkSize) IN
                            [k \in 1..Len(cs) |-> NewTask(cs[k])]]
                    /\ worker' = [worker EXCEPT ![w].pc = "chunks"]
  /\ UNCHANGED srcSize
  /\ UNCHANGED <<main, jobs, results, ledger, queued, preDone, preLost, run, slug>>
  /\ UNCHANGED <<cacheVars, tiling, auxVars>>

\* the chunk tasks of episode e that hold a slot of the limiter channel
Holding(e) == {k \in 1..Len(chunks[e]) : chunks[e][k].pc \in {"held", "fetch"}}

\* a limiter that never blocks
LimiterFree_Unbounded(e) == TRUE

\* limiter <- struct{}{} can proceed: the channel of capacity MaxChunkWorkers
\* is not full
LimiterFree(e) == Cardinality(Holding(e)) < MaxChunkWorkers

\* the retry loop with retry <= MaxRetries
RetryAgain_OffByOne(retry) == retry <= MaxRetries

\* the retry loop goes on: for retry := 0; retry < MaxRetries; retry++
RetryAgain(retry) == retry < MaxRetries

\* a chunk task acquires the semaphore (and takes a buffer from the pool)
ChunkAcquire(e, k) ==
  /\ k \in 1..Len(chunks[e])
  /\ chunks[e][k].pc = "spawned"
  /\ LimiterFree(e)
  /\ chunks' = [chunks EXCEPT ![e][k].pc = "held"]
  /\ UNCHANGED <<srcSize, disk, requested>>
  /\ UNCHANGED <<orchVars, cacheVars, tiling, auxVars>>

\* the task calls downloadChunk: the range request is sent
ChunkRequest(e, k) ==
  /\ k \in 1..Len(chunks[e])
  /\ chunks[e][k].pc = "held"
  /\ chunks' = [chunks EXCEPT ![e][k].pc = "fetch", ![e][k].fetches = @ + 1]
  /\ requested' = requested \cup ({e} \cap preDone)
  /\ UNCHANGED <<srcSize, disk>>
  /\ UNCHANGED <<orchVars, cacheVars, tiling, auxVars>>

\* downloadChunk returns; the task retries, gives up or finishes
ChunkResponse(e, k) ==
  /\ k \in 1..Len(chunks[e])
  /\ chunks[e][k].pc = "fetch"
  /\ LET c == chunks[e][k] IN
     \E resp \in Responses(c.end - c.start) :
       LET r == DownloadChunk(c.start, c.end, resp) IN
         /\ disk' = [disk EXCEPT ![e] = WriteAt(@, r.offs)]
         /\ chunks' = [chunks EXCEPT ![e][k] =
              IF r.err
              THEN IF RetryAgain(c.retry + 1)
                   THEN [c EXCEPT !.pc = "held", !.retry = @ + 1, !.fails = @ + 1]
                   ELSE [c EXCEPT !.pc = "done", !.retry = @ + 1, !.fails = @ + 1,
                                  !.failed = TRUE]
              ELSE [c EXCEPT !.pc = "done", !.oks = @ + 1, !.short = (resp.len < c.end - c.start)]]
  /\ UNCHANGED <<srcSize, requested>>
  /\ UNCHANGED <<orchVars, cacheVars, tiling, auxVars>>

\* a wg.Wait() that returns at once
AllChunksDone_NoWait(e) == TRUE

\* wg.Wait() can return: every chunk goroutine of episode e has finished
AllChunksDone(e) == \A k \in 1..Len(chunks[e]) : chunks[e][k].pc = "done"

\* only the first chunk's error is looked at
ChunkErrors_FirstOnly(e) == chunks[e][1].failed

\* len(errMsgs) > 0: some chunk goroutine sent on the errors channel
ChunkErrors(e) == \E k \in 1..Len(chunks[e]) : chunks[e][k].failed

\* the chunk goroutines still running
RunningTasks(e) == SelectSeq(chunks[e], LAMBDA c : c.pc # "done")

\* a return that removes the destination file when a chunk failed
ReturnFromChunks_RemoveOnError(d, err) == IF err THEN NoFile ELSE Close(d)

\* the destination file when downloadWithChunks returns, with or without an
\* error: only the deferred writer.Close() touches it
ReturnFromChunks(d, err) == Close(d)

\* wg.Wait() returns, the errors are collected, the writer is closed and
\* downloadWithChunks, DownloadVideo and tryDownload return
ChunksJoin(w) ==
  /\ worker[w].pc = "chunks"
  /\ LET e == worker[w].ep
         err == ChunkErrors(e) IN
       /\ AllChunksDone(e)
       /\ worker' = [worker EXCEPT ![w] =
                       AfterTry([@ EXCEPT !.exh = @ \/ err], err)]
       /\ chunks' = [chunks EXCEPT ![e] = RunningTasks(e)]
       /\ disk' = [disk EXCEPT ![e] = ReturnFromChunks(@, err)]
  /\ UNCHANGED <<srcSize, requested>>
  /\ UNCHANGED <<main, jobs, results, ledger, queued, preDone, preLost, run, slug>>
  /\ UNCHANGED <<cacheVars, tiling, auxVars>>

\* ------------------------------------------------------------------------
\* One downloadWithChunks call, for every small file size
\* ------------------------------------------------------------------------
ChunkedInit ==
  /\ files = EmptyFS
  /\ now = 0
  /\ setOp = NoOp
  /\ lastGet = NoGet
  /\ lastSet = [k \in CacheKeys |-> NoValue]
  /\ committed = EmptyFS
  /\ crashes = 0
  /\ TilingIdle
  /\ \E size \in 0..MaxFileSize : srcSize = [e \in Episodes |-> size]
  /\ disk = [e \in Episodes |-> NoFile]
  /\ chunks = [e \in Episodes |-> <<>>]
  /\ requested = {}
  /\ main = [IdleMain EXCEPT !.pc = "results"]
  /\ worker = [w \in Workers |->
                 IF w = 1 THEN [IdleWorker EXCEPT !.pc = "try", !.ep = 1]
                 ELSE IdleWorker]
  /\ jobs = [buf |-> <<>>, closed |-> TRUE, toSend |-> <<>>]
  /\ results = [buf |-> <<>>, closed |-> FALSE]
  /\ ledger = {}
  /\ queued = {1}
  /\ preDone = {}
  /\ preLost = {}
  /\ run = 1
  /\ slug = BareSlug
  /\ AuxIdle

ChunkedNext ==
  \/ \E w \in Workers : TryDownload(w)
  \/ \E e \in Episodes : \E k \in 1..Len(chunks[e]) : ChunkAcquire(e, k)
  \/ \E e \in Episodes : \E k \in 1..Len(chunks[e]) : ChunkRequest(e, k)
  \/ \E e \in Episodes : \E k \in 1..Len(chunks[e]) : ChunkResponse(e, k)
  \/ \E w \in Workers : ChunksJoin(w)

SpecChunked == ChunkedInit /\ [][ChunkedNext]_vars

\* the chunk fetches (downloadChunk calls) of episode e in flight
InFlight(e) == {k \in 1..Len(chunks[e]) : chunks[e][k].pc = "fetch"}

\* C5: never more than MaxChunkWorkers chunk fetches in flight for one item
BoundedChunkConcurrency ==
  \A e \in Episodes : Cardinality(InFlight(e)) <= MaxChunkWorkers

\* MaxChunkWorkers fetches in flight while a further chunk task waits
WitnessBoundedChunkConcurrency ==
  \E e \in Episodes :
    /\ Cardinality(InFlight(e)) = MaxChunkWorkers
    /\ \E k \in 1..Len(chunks[e]) : chunks[e][k].pc = "spawned"

\* C6: a body that ends before end-start bytes is never taken for a success
ShortReadIsFailure ==
  \A e \in Episodes : \A k \in 1..Len(chunks[e]) :
    LET c == chunks[e][k] IN
      (c.pc = "done" /\ ~c.failed) => ~c.short

\* C10: a chunk is fetched until its first success or until MaxRetries
\* failures: never more than MaxRetries fetches, none after a success; a
\* finished chunk either succeeded on its last fetch, after fetches-1
\* failures, and reports no error, or failed MaxRetries times and is reported.
ChunkRetryCount ==
  \A e \in Episodes : \A k \in 1..Len(chunks[e]) :
    LET c == chunks[e][k] IN
      /\ c.fetches <= MaxRetries
      /\ c.oks <= 1
      /\ c.oks = 1 => c.pc = "done"
      /\ c.pc = "done" =>
           \/ c.oks = 1 /\ c.fetches = c.fails + 1 /\ ~c.failed
           \/ c.oks = 0 /\ c.fetches = MaxRetries /\ c.fails = MaxRetries /\ c.failed

\* one chunk succeeded on its third fetch, another on its first
WitnessChunkRetryCount ==
  \E e \in Episodes : \E j, k \in 1..Len(chunks[e]) :
    /\ chunks[e][j].pc = "done" /\ chunks[e][j].oks = 1 /\ chunks[e][j].fetches = MaxRetries
    /\ chunks[e][k].pc = "done" /\ chunks[e][k].oks = 1 /\ chunks[e][k].fetches = 1

\* tryDownload of worker record wr returned an error
TryFailed(wr) == ~(wr.pc = "send" /\ ~wr.err)

\* C11: downloadWithChunks returns only once every chunk task has finished,
\* and it returns an error exactly when some chunk failed MaxRetries times
AggregateFailure ==
  [][\A w \in Workers :
       (worker[w].pc = "chunks" /\ worker'[w].pc # "chunks") =>
         LET cs == chunks[worker[w].ep] IN
           /\ \A k \in 1..Len(cs) : cs[k].pc = "done"
           /\ TryFailed(worker'[w]) <=>
                \E k \in 1..Len(cs) : cs[k].oks = 0 /\ cs[k].fails = MaxRetries]_vars

\* a first downloadWithChunks call of several chunks returned an error
\* although the first chunk had been written in full
WitnessAggregateFailure ==
  \E w \in Workers :
    /\ worker[w].pc = "try" /\ worker[w].i = 1 /\ worker[w].exh
    /\ srcSize[worker[w].ep] > ChunkSize
    /\ 0..(ChunkSize - 1) \subseteq disk[worker[w].ep].filled

\* ------------------------------------------------------------------------
\* DownloadSeries: ledger, worker pool, result loop
\* ------------------------------------------------------------------------
\* DownloadSeries up to the start of the workers: the ledger is loaded, the
\* episodes not marked complete are queued, the pool is created
StartRun(s) ==
  /\ main.pc \in {"idle", "done"}
  /\ run < MaxRuns
  /\ LET state == LoadDownloadState(files, s)
         saved == LoadDownloadState(files, CleanSlug(s))
         todo == {e \in Episodes : e \notin state.completed} IN
       /\ ledger' = state.completed
       /\ queued' = todo
       /\ preDone' = {e \in saved.completed : disk[e].exists /\ disk[e].size > 0}
       /\ preLost' = {e \in state.completed : ~disk[e].exists \/ disk[e].size = 0}
       /\ IF todo = {}
          THEN /\ main' = [IdleMain EXCEPT !.pc = "done"]
               /\ worker' = [w \in Workers |-> IdleWorker]
               /\ jobs' = [buf |-> <<>>, closed |-> FALSE, toSend |-> <<>>]
          ELSE /\ main' = [IdleMain EXCEPT !.pc = "results"]
               /\ worker' = [w \in Workers |-> [IdleWorker EXCEPT !.pc = "recv"]]
               /\ jobs' = [buf |-> <<>>, closed |-> FALSE, toSend |-> SeqOf(todo)]
  /\ results' = [buf |-> <<>>, closed |-> FALSE]
  /\ run' = run + 1
  /\ slug' = s
  /\ chunks' = [e \in Episodes |-> <<>>]
  /\ requested' = {}
  /\ UNCHANGED <<srcSize, disk>>
  /\ UNCHANGED <<cacheVars, tiling, auxVars>>

\* the sender goroutine: jobs <- episode
JobsSend ==
  /\ jobs.toSend # <<>>
  /\ Len(jobs.buf) < JobBufferSize
  /\ jobs' = [jobs EXCEPT !.buf = Append(@, Head(jobs.toSend)),
                          !.toSend = Tail(@)]
  /\ UNCHANGED <<main, worker, results, ledger, queued, preDone, preLost, run, slug>>
  /\ UNCHANGED <<xferVars, cacheVars, tiling, auxVars>>

\* the sender goroutine: close(jobs)
JobsClose ==
  /\ main.pc = "results"
  /\ jobs.toSend = <<>>
  /\ ~jobs.closed
  /\ jobs' = [jobs EXCEPT !.closed = TRUE]
  /\ UNCHANGED <<main, worker, results, ledger, queued, preDone, preLost, run, slug>>
  /\ UNCHANGED <<xferVars, cacheVars, tiling, auxVars>>

\* a worker: for episode := range jobs
WorkerRecv(w) ==
  /\ worker[w].pc = "recv"
  /\ \/ /\ jobs.buf # <<>>
        /\ worker' = [worker EXCEPT ![w] =
                        [IdleWorker EXCEPT !.pc = "try", !.ep = Head(jobs.buf)]]
        /\ jobs' = [jobs EXCEPT !.buf = Tail(@)]
     \/ /\ jobs.buf = <<>>
        /\ jobs.closed
        /\ worker' = [worker EXCEPT ![w] = IdleWorker]
        /\ UNCHANGED jobs
  /\ UNCHANGED <<main, results, ledger, queued, preDone, preLost, run, slug>>
  /\ UNCHANGED <<xferVars, cacheVars, tiling, auxVars>>

\* a worker: results <- {episode, outputDir, err}
WorkerSend(w) ==
  /\ worker[w].pc = "send"
  /\ Len(results.buf) < ResultsBufferSize
  /\ results' = [results EXCEPT !.buf =
                   Append(@, [ep |-> worker[w].ep, err |-> worker[w].err,
                              exh |-> worker[w].exh])]
  /\ worker' = [worker EXCEPT ![w] = [IdleWorker EXCEPT !.pc = "recv"]]
  /\ UNCHANGED <<main, jobs, ledger, queued, preDone, preLost, run, slug>>
  /\ UNCHANGED <<xferVars, cacheVars, tiling, auxVars>>

\* a closer that does not wait for the workers
WaitGroupDone_NoWait(wk) == TRUE

\* wg.Wait() returns: every worker has run its deferred wg.Done()
WaitGroupDone(wk) == \A w \in Workers : wk[w].pc = "exit"

\* wg.Wait(); close(results)
ResultsClose ==
  /\ main.pc = "results"
  /\ ~results.closed
  /\ WaitGroupDone(worker)
  /\ results' = [results EXCEPT !.closed = TRUE]
  /\ UNCHANGED <<main, worker, jobs, ledger, queued, preDone, preLost, run, slug>>
  /\ UNCHANGED <<xferVars, cacheVars, tiling, auxVars>>

\* the result loop: one result is counted; a success is added to the ledger
\* and the ledger is saved
ProcessResult ==
  /\ main.pc = "results"
  /\ results.buf # <<>>
  /\ LET r == Head(results.buf) IN
       IF ~r.err
       THEN /\ main' = [main EXCEPT !.success = @ + 1,
                                    !.exh = IF r.exh THEN @ + 1 ELSE @]
            /\ ledger' = ledger \cup {r.ep}
            /\ files' = SaveDownloadState(files, CleanSlug(slug), ledger \cup {r.ep}, now)
       ELSE /\ main' = [main EXCEPT !.failed = @ + 1,
                                    !.exh = IF r.exh THEN @ + 1 ELSE @,
                                    !.exhFailed = IF r.exh THEN @ + 1 ELSE @]
            /\ UNCHANGED <<ledger, files>>
  /\ results' = [results EXCEPT !.buf = Tail(@)]
  /\ UNCHANGED <<worker, jobs, queued, preDone, preLost, run, slug>>
  /\ UNCHANGED <<xferVars, cacheGhost, tiling, auxVars>>

\* a program that prints downloadErr and ends normally
ExitStatus_PrintOnly(downloadErr) == 0

\* main: if downloadErr != nil { ...; os.Exit(1) }, else the normal end
ExitStatus(downloadErr) == IF downloadErr THEN 1 ELSE 0

\* the result loop ends on the closed channel; DownloadSeries returns and the
\* program exits
Finish ==
  /\ main.pc = "results"
  /\ results.buf = <<>>
  /\ results.closed
  /\ main' = [main EXCEPT !.pc = "done", !.err = (main.failed > 0),
                          !.exit = ExitStatus(main.failed > 0)]
  /\ UNCHANGED <<worker, jobs, results, ledger, queued, preDone, preLost, run, slug>>
  /\ UNCHANGED <<xferVars, cacheVars, tiling, auxVars>>

\* between two runs the user removes a downloaded file
DeleteFile(e) ==
  /\ main.pc = "done"
  /\ run < MaxRuns
  /\ disk[e].exists
  /\ disk' = [disk EXCEPT ![e] = NoFile]
  /\ UNCHANGED <<srcSize, chunks, requested>>
  /\ UNCHANGED <<orchVars, cacheVars, tiling, auxVars>>

Next ==
  \/ \E s \in SlugForms : StartRun(s)
  \/ JobsSend
  \/ JobsClose
  \/ \E w \in Workers : WorkerRecv(w)
  \/ \E w \in Workers : TryDownload(w)
  \/ \E e \in Episodes : \E k \in 1..Len(chunks[e]) : ChunkAcquire(e, k)
  \/ \E e \in Episodes : \E k \in 1..Len(chunks[e]) : ChunkRequest(e, k)
  \/ \E e \in Episodes : \E k \in 1..Len(chunks[e]) : ChunkResponse(e, k)
  \/ \E w \in Workers : ChunksJoin(w)
  \/ \E w \in Workers : WorkerSend(w)
  \/ ResultsClose
  \/ ProcessResult
  \/ Finish
  \/ \E e \in Episodes : DeleteFile(e)

Spec == Init /\ [][Next]_vars

\* C1: an id enters the ledger only when the destination file holds the
\* complete resource
LedgerOnlyComplete ==
  [][\A e \in Episodes :
       (main.pc = "results" /\ e \notin ledger /\ e \in ledger')
         => FileComplete(disk'[e], srcSize[e])]_vars

\* C2: an item the loaded ledger marks complete but whose file is missing
\* or empty is queued again
DiskOverridesLedger ==
  main.pc \in {"results", "done"} => \A e \in preLost : e \in queued

\* C3: when exactly one queued item exhausted the retries of a chunk and no
\* other item failed, the run ends with failedCount = 1 and
\* successCount = N - 1
PartialFailureIsolation ==
  (main.pc = "done" /\ main.exh = 1 /\ main.failed = main.exhFailed)
    => (main.failed = 1 /\ main.success = Cardinality(queued) - 1)

\* no video-config request, probe or range request is issued for an item
\* that the previous run recorded complete and whose file is still there
\* with size > 0
NoRequestForCompleted == \A e \in preDone : e \notin requested

\* C7: an item that the previous run recorded complete and whose file is
\* still there with size > 0 is skipped before dispatch, and no network
\* request is issued for it
IdempotentResume ==
  /\ NoRequestForCompleted
  /\ \A e \in preDone : e \notin queued

\* ------------------------------------------------------------------------
\* DownloadAllBits / downloadBit: the workers of one run and the ledger
\* key bits_download_state
\* ------------------------------------------------------------------------
NumBits == 3
Bits == 1..NumBits

BitsStateKey ==
  <<"b", "i", "t", "s", "_", "d", "o", "w", "n", "l", "o", "a", "d", "_",
    "s", "t", "a", "t", "e">>

\* loadBitsDownloadState: an empty ledger when the entry is absent or unreadable
LoadBitsDownloadState(fs) ==
  LET r == CacheGet(fs, BitsStateKey) IN
  IF r.err \/ ~r.found THEN {} ELSE r.data

\* saveBitsDownloadState
SaveBitsDownloadState(fs, completed, ts) == CacheSet(fs, BitsStateKey, completed, ts)

\* the downloadBit goroutines that hold a slot of sem
BitsRunning == {b \in Bits : bit.task[b].pc \in {"load", "fetch", "save"}}

\* DownloadAllBits on a fresh store; some bits may already be on disk
BitsInit ==
  /\ files = EmptyFS
  /\ now = 0
  /\ setOp = NoOp
  /\ lastGet = NoGet
  /\ lastSet = [k \in CacheKeys |-> NoValue]
  /\ committed = EmptyFS
  /\ crashes = 0
  /\ TilingIdle
  /\ XferIdle
  /\ OrchIdle
  /\ sink = IdleSink
  /\ fleet = IdleFleet
  /\ ExtIdle
  /\ \E d \in SUBSET Bits :
       bit = [next |-> 1, onDisk |-> d,
              task |-> [b \in Bits |-> [pc |-> "queued", snap |-> {}]]]

\* DownloadAllBits: the loop takes the next bit, sem <- true, go func
BitLaunch ==
  /\ bit.next \in Bits
  /\ Cardinality(BitsRunning) < MaxEpisodeWorkers
  /\ bit' = [bit EXCEPT !.next = @ + 1, !.task[bit.next].pc = "load"]
  /\ UNCHANGED <<cacheVars, tiling, xferVars, orchVars, sink, fleet, extVars>>

\* downloadBit: loadBitsDownloadState, the check of the ledger and of the disk
BitLoad(b) ==
  /\ bit.task[b].pc = "load"
  /\ LET snap == LoadBitsDownloadState(files) IN
       bit' = [bit EXCEPT !.task[b] =
                 [pc |-> IF b \in snap THEN "done"
                         ELSE IF b \in bit.onDisk THEN "save" ELSE "fetch",
                  snap |-> snap]]
  /\ UNCHANGED <<cacheVars, tiling, xferVars, orchVars, sink, fleet, extVars>>

\* downloadBit: GetVideoConfig and DownloadVideo succeed or fail
BitFetch(b) ==
  /\ bit.task[b].pc = "fetch"
  /\ \E ok \in BOOLEAN :
       bit' = IF ok
              THEN [bit EXCEPT !.task[b].pc = "save", !.onDisk = @ \cup {b}]
              ELSE [bit EXCEPT !.task[b].pc = "failed"]
  /\ UNCHANGED <<cacheVars, tiling, xferVars, orchVars, sink, fleet, extVars>>

\* downloadBit: state.Completed[bit.Path] = true; saveBitsDownloadState(state)
BitSave(b) ==
  /\ bit.task[b].pc = "save"
  /\ files' = SaveBitsDownloadState(files, bit.task[b].snap \cup {b}, now)
  /\ bit' = [bit EXCEPT !.task[b].pc = "done"]
  /\ UNCHANGED <<cacheGhost, tiling, xferVars, orchVars, sink, fleet, extVars>>

BitsNext ==
  \/ BitLaunch
  \/ \E b \in Bits : BitLoad(b)
  \/ \E b \in Bits : BitFetch(b)
  \/ \E b \in Bits : BitSave(b)

SpecBits == BitsInit /\ [][BitsNext]_vars

\* C12: after the batch the persisted ledger holds the id of every item
\* that completed successfully during the batch
NoLostLedgerUpdate ==
  (bit.next > NumBits /\ \A b \in Bits : bit.task[b].pc \in {"done", "failed"})
    => \A b \in Bits :
         bit.task[b].pc = "done" => b \in LoadBitsDownloadState(files)

\* ------------------------------------------------------------------------
\* DownloadAllSeries: concurrent DownloadSeries runs, their item workers
\* and the range requests of their chunk tasks
\* ------------------------------------------------------------------------
Series == 1..NumSeries

IdleItemWorker == [busy |-> FALSE, req |-> 0]

RECURSIVE SumOver(_, _)
SumOver(f, S) ==
  IF S = {} THEN 0
  ELSE LET x == CHOOSE y \in S : TRUE IN f[x] + SumOver(f, S \ {x})

\* the DownloadSeries goroutines that hold a slot of sem
SeriesRunning == {s \in Series : fleet.series[s].pc = "run"}

\* the item workers of series s inside downloadEpisode
BusyWorkers(s) == {w \in DOMAIN fleet.series[s].worker : fleet.series[s].worker[w].busy}

\* the range requests in flight in series s
RequestsOf(s) ==
  SumOver([w \in DOMAIN fleet.series[s].worker |-> fleet.series[s].worker[w].req],
          DOMAIN fleet.series[s].worker)

\* the range requests in flight in the whole process
RequestsInFlight == SumOver([s \in Series |-> RequestsOf(s)], Series)

FleetInit ==
  /\ files = EmptyFS
  /\ now = 0
  /\ setOp = NoOp
  /\ lastGet = NoGet
  /\ lastSet = [k \in CacheKeys |-> NoValue]
  /\ committed = EmptyFS
  /\ crashes = 0
  /\ TilingIdle
  /\ XferIdle
  /\ OrchIdle
  /\ ExtIdle
  /\ sink = IdleSink
  /\ bit = IdleBit
  /\ fleet = [next |-> 1,
              series |-> [s \in Series |->
                            [pc |-> "wait", left |-> 0,
                             worker |-> [w \in Workers |-> IdleItemWorker]]]]

\* DownloadAllSeries: the loop takes the next slug, sem <- true, and the
\* goroutine calls DownloadSeries, which queues its items and starts its
\* workers
SeriesLaunch ==
  /\ fleet.next \in Series
  /\ Cardinality(SeriesRunning) < MaxSeriesConcurrent
  /\ fleet' = [fleet EXCEPT !.next = @ + 1,
                            !.series[fleet.next].pc = "run",
                            !.series[fleet.next].left = NumFleetItems]
  /\ UNCHANGED <<cacheVars, tiling, xferVars, orchVars, sink, bit, extVars>>

\* a worker of series s takes an item from jobs and calls downloadEpisode
ItemRecv(s, w) ==
  /\ fleet.series[s].pc = "run"
  /\ w \in DOMAIN fleet.series[s].worker
  /\ ~fleet.series[s].worker[w].busy
  /\ fleet.series[s].left > 0
  /\ fleet' = [fleet EXCEPT !.series[s].left = @ - 1,
                            !.series[s].worker[w].busy = TRUE]
  /\ UNCHANGED <<cacheVars, tiling, xferVars, orchVars, sink, bit, extVars>>

\* a chunk task of the item acquires the limiter and sends its range request
RangeStart(s, w) ==
  /\ w \in DOMAIN fleet.series[s].worker
  /\ fleet.series[s].worker[w].busy
  /\ fleet.series[s].worker[w].req < MaxChunkWorkers
  /\ fleet' = [fleet EXCEPT !.series[s].worker[w].req = @ + 1]
  /\ UNCHANGED <<cacheVars, tiling, xferVars, orchVars, sink, bit, extVars>>

\* a range request ends and its chunk task releases the limiter
RangeEnd(s, w) ==
  /\ w \in DOMAIN fleet.series[s].worker
  /\ fleet.series[s].worker[w].req > 0
  /\ fleet' = [fleet EXCEPT !.series[s].worker[w].req = @ - 1]
  /\ UNCHANGED <<cacheVars, tiling, xferVars, orchVars, sink, bit, extVars>>

\* downloadEpisode returns (every chunk task has finished) and the worker
\* sends its result
ItemDone(s, w) ==
  /\ w \in DOMAIN fleet.series[s].worker
  /\ fleet.series[s].worker[w].busy
  /\ fleet.series[s].worker[w].req = 0
  /\ fleet' = [fleet EXCEPT !.series[s].worker[w].busy = FALSE]
  /\ UNCHANGED <<cacheVars, tiling, xferVars, orchVars, sink, bit, extVars>>

\* DownloadSeries returns and its goroutine releases sem
SeriesDone(s) ==
  /\ fleet.series[s].pc = "run"
  /\ fleet.series[s].left = 0
  /\ BusyWorkers(s) = {}
  /\ fleet' = [fleet EXCEPT !.series[s].pc = "done"]
  /\ UNCHANGED <<cacheVars, tiling, xferVars, orchVars, sink, bit, extVars>>

FleetNext ==
  \/ SeriesLaunch
  \/ \E s \in Series, w \in Workers : ItemRecv(s, w)
  \/ \E s \in Series, w \in Workers : RangeStart(s, w)
  \/ \E s \in Series, w \in Workers : RangeEnd(s, w)
  \/ \E s \in Series, w \in Workers : ItemDone(s, w)
  \/ \E s \in Series : SeriesDone(s)

SpecFleet == FleetInit /\ [][FleetNext]_vars

\* C13: within one DownloadSeries run at most MaxEpisodeWorkers
\* downloadEpisode calls are in progress
BoundedItemConcurrency ==
  \A s \in Series : Cardinality(BusyWorkers(s)) <= MaxEpisodeWorkers

\* MaxEpisodeWorkers transfers in progress while a further item waits in jobs
WitnessBoundedItemConcurrency ==
  \E s \in Series :
    /\ Cardinality(BusyWorkers(s)) = MaxEpisodeWorkers
    /\ fleet.series[s].left > 0

\* C14: never more than MaxEpisodeWorkers x MaxChunkWorkers range requests
\* in flight across the whole process
EffectiveConcurrencyBound ==
  RequestsInFlight <= MaxEpisodeWorkers * MaxChunkWorkers

\* ------------------------------------------------------------------------
\* BufferedFileWriter under the concurrent WriteAt calls of the chunk tasks
\* of one downloadWithChunks call, every body delivered in full
\* ------------------------------------------------------------------------
\* The byte of the source at offset o is written o + 1; 0 is a byte never
\* written. sink.data[o + 1] is the byte of the file at offset o.
SinkTasks == 1..Len(sink.task)

SinkInit ==
  /\ files = EmptyFS
  /\ now = 0
  /\ setOp = NoOp
  /\ lastGet = NoGet
  /\ lastSet = [k \in CacheKeys |-> NoValue]
  /\ committed = EmptyFS
  /\ crashes = 0
  /\ TilingIdle
  /\ XferIdle
  /\ OrchIdle
  /\ bit = IdleBit
  /\ fleet = IdleFleet
  /\ ExtIdle
  /\ \E size \in 1..MaxSinkSize :
       sink = [size |-> size, pos |-> 0, buf |-> <<>>, mu |-> 0,
               data |-> [o \in 1..size |-> 0],
               task |-> LET cs == ComputeChunks(size, ChunkSize) IN
                          [k \in 1..Len(cs) |->
                             [start |-> cs[k].start, end |-> cs[k].end,
                              written |-> 0, n |-> 0, pc |-> "read"]]]

\* the mutex is taken whatever its state
MutexFree_NoLock == TRUE

\* w.mu.Lock() can proceed
MutexFree == sink.mu = 0

\* downloadChunk: the loop condition and reader.Read(buffer)
SinkRead(t) ==
  /\ sink.task[t].pc = "read"
  /\ LET c == sink.task[t]
         rest == (c.end - c.start) - c.written IN
       IF rest <= 0
       THEN sink' = [sink EXCEPT !.task[t].pc = "done"]
       ELSE \E n \in 1..Min(MemoryBuffer, rest) :
              sink' = [sink EXCEPT !.task[t].n = n, !.task[t].pc = "lock"]
  /\ UNCHANGED <<cacheVars, tiling, xferVars, orchVars, bit, fleet, extVars>>

\* WriteAt: w.mu.Lock()
SinkLock(t) ==
  /\ sink.task[t].pc = "lock"
  /\ MutexFree
  /\ sink' = [sink EXCEPT !.mu = t, !.task[t].pc = "seek"]
  /\ UNCHANGED <<cacheVars, tiling, xferVars, orchVars, bit, fleet, extVars>>

\* WriteAt: w.file.Seek(off, 0) with off = start + written
SinkSeek(t) ==
  /\ sink.task[t].pc = "seek"
  /\ sink' = [sink EXCEPT !.pos = sink.task[t].start + sink.task[t].written,
                          !.task[t].pc = "write"]
  /\ UNCHANGED <<cacheVars, tiling, xferVars, orchVars, bit, fleet, extVars>>

\* WriteAt: w.writer.Write(p) appends the n bytes to the bufio buffer
SinkWrite(t) ==
  /\ sink.task[t].pc = "write"
  /\ LET c == sink.task[t] IN
       sink' = [sink EXCEPT !.buf = @ \o [i \in 1..c.n |-> c.start + c.written + i],
                            !.task[t].pc = "flush"]
  /\ UNCHANGED <<cacheVars, tiling, xferVars, orchVars, bit, fleet, extVars>>

\* WriteAt: w.writer.Flush() writes the buffer at the file position
SinkFlush(t) ==
  /\ sink.task[t].pc = "flush"
  /\ LET len == Max(Len(sink.data), sink.pos + Len(sink.buf)) IN
       sink' = [sink EXCEPT
                  !.data = [o \in 1..len |->
                              IF o > sink.pos /\ o <= sink.pos + Len(sink.buf)
                              THEN sink.buf[o - sink.pos]
                              ELSE IF o <= Len(sink.data) THEN sink.data[o] ELSE 0],
                  !.pos = @ + Len(sink.buf),
                  !.buf = <<>>,
                  !.task[t].pc = "unlock"]
  /\ UNCHANGED <<cacheVars, tiling, xferVars, orchVars, bit, fleet, extVars>>

\* WriteAt returns (the deferred Unlock); downloadChunk: written += n
SinkUnlock(t) ==
  /\ sink.task[t].pc = "unlock"
  /\ sink' = [sink EXCEPT !.mu = 0,
                          !.task[t].written = @ + sink.task[t].n,
                          !.task[t].pc = "read"]
  /\ UNCHANGED <<cacheVars, tiling, xferVars, orchVars, bit, fleet, extVars>>

SinkNext ==
  \/ \E t \in SinkTasks : SinkRead(t)
  \/ \E t \in SinkTasks : SinkLock(t)
  \/ \E t \in SinkTasks : SinkSeek(t)
  \/ \E t \in SinkTasks : SinkWrite(t)
  \/ \E t \in SinkTasks : SinkFlush(t)
  \/ \E t \in SinkTasks : SinkUnlock(t)

SpecSink == SinkInit /\ [][SinkNext]_vars

\* the tasks between Lock and Unlock of WriteAt
InWriteAt == {t \in SinkTasks : sink.task[t].pc \in {"seek", "write", "flush", "unlock"}}

DestinationSize ==
  \A w \in Workers :
    worker[w].pc = "chunks" => disk[worker[w].ep].size = srcSize[worker[w].ep]

\* the downloadWithChunks call for episode e is between NewBufferedFileWriter
\* and its return
CallRunning(e) == \E w \in Workers : worker[w].pc = "chunks" /\ worker[w].ep = e

\* C17: the sink is open exactly while downloadWithChunks runs; once the
\* call has returned, with or without a chunk failure, Close was called
\* exactly once, no chunk task is left running, and no WriteAt ever ran on
\* the closed sink
ScopedSinkClose ==
  \A e \in Episodes :
    /\ disk[e].open <=> CallRunning(e)
    /\ disk[e].open => disk[e].closes = 0
    /\ (disk[e].exists /\ ~disk[e].open) =>
         (disk[e].closes = 1 /\ chunks[e] = <<>>)
    /\ ~disk[e].lateWrite

\* a call of several chunks returned a chunk failure and its sink is closed
WitnessScopedSinkClose ==
  \E w \in Workers :
    /\ worker[w].pc = "try" /\ worker[w].exh
    /\ srcSize[worker[w].ep] > ChunkSize
    /\ disk[worker[w].ep].closes = 1
    /\ ~disk[worker[w].ep].open

\* the ledger of the running series as the store holds it: what
\* saveDownloadState(cleanSlug, state) wrote last
PersistedLedger == LoadDownloadState(files, CleanSlug(slug)).completed

SeqElems(q) == {q[i] : i \in 1..Len(q)}

\* the workers that hold a job: between the receive from jobs and the send
\* on results
BusyEpisodeWorkers == {w \in Workers : worker[w].pc \in {"try", "chunks", "send"}}

\* the queued items not yet counted by the result loop: still to be sent,
\* in the jobs channel, with a worker, or in the results channel
PendingItems ==
  SeqElems(jobs.toSend) \cup SeqElems(jobs.buf)
    \cup {worker[w].ep : w \in BusyEpisodeWorkers}
    \cup {results.buf[i].ep : i \in 1..Len(results.buf)}

PendingCount ==
  Len(jobs.toSend) + Len(jobs.buf) + Cardinality(BusyEpisodeWorkers)
    + Len(results.buf)

\* totalEpisodes - len(episodesToDownload): the items skipped as complete
AlreadyComplete == Cardinality(Episodes \ queued)

\* C19: while DownloadSeries runs every queued item is in exactly one place
\* or has been counted once; when it returns after dispatching work,
\* successCount + failedCount is the number of queued items and the total
\* is alreadyComplete + succeeded + failed
AggregateCounts ==
  /\ main.pc = "results" =>
       /\ PendingItems \subseteq queued
       /\ Cardinality(PendingItems) = PendingCount
       /\ PendingCount + main.success + main.failed = Cardinality(queued)
  /\ (main.pc = "done" /\ queued # {}) =>
       /\ PendingCount = 0
       /\ main.success + main.failed = Cardinality(queued)
       /\ Cardinality(Episodes) = AlreadyComplete + main.success + main.failed

\* a run over a partly complete series returned with one item failed
WitnessAggregateCounts ==
  /\ main.pc = "done"
  /\ queued # {}
  /\ AlreadyComplete >= 1
  /\ main.failed = 1

\* C20: when DownloadSeries returns after dispatching work it returns an
\* error exactly when failedCount > 0, and the program exits with a
\* non-zero status exactly when DownloadSeries returned an error
FailureSignal ==
  (main.pc = "done" /\ queued # {}) =>
    /\ main.err <=> main.failed > 0
    /\ main.exit # 0 <=> main.err

\* a run in which one item succeeded and one failed ended with exit status 1
WitnessFailureSignal ==
  /\ main.pc = "done"
  /\ main.success >= 1
  /\ main.failed >= 1
  /\ main.err
  /\ main.exit = 1

\* ------------------------------------------------------------------------
\* Cache.IsStale under Set calls and a running clock
\* ------------------------------------------------------------------------
\* Cache.IsStale at time t: true when no <key>.json exists in any partition
\* or the entry does not parse, else time.Since(entry.Timestamp) > maxAge
CacheIsStale(fs, key, maxAge, t) ==
  LET i == GetFindFrom(fs, key, 1) IN
  IF i = 0 THEN TRUE
  ELSE LET bytes == fs[JsonPath(Subdirs[i], key)] IN
       IF ~Parsable(bytes) THEN TRUE
       ELSE t - bytes[3] > maxAge

StaleInit ==
  /\ files = EmptyFS
  /\ now = 0
  /\ setOp = NoOp
  /\ lastGet = NoGet
  /\ lastSet = [k \in CacheKeys |-> NoValue]
  /\ committed = EmptyFS
  /\ crashes = 0
  /\ TilingIdle
  /\ XferIdle
  /\ OrchIdle
  /\ MoreIdle
  /\ sink = IdleSink
  /\ bit = IdleBit
  /\ fleet = IdleFleet
  /\ stale = [IdleStale EXCEPT !.wrote = [k \in CacheKeys |-> NoValue]]
  /\ clr = IdleClr
  /\ video = IdleVideo
  /\ pool = IdlePool

\* a Set call that returns nil: the entry carries Timestamp = time.Now()
StaleSet(key, data) ==
  /\ files' = CacheSet(files, key, data, now)
  /\ stale' = [stale EXCEPT !.wrote[key] = [valid |-> TRUE, data |-> now]]
  /\ UNCHANGED <<cacheGhost, tiling, xferVars, orchVars>>
  /\ UNCHANGED <<sink, bit, fleet, clr, video, pool, moreVars>>

\* time passes
Tick ==
  /\ now < MaxClock
  /\ now' = now + 1
  /\ UNCHANGED <<files, setOp, lastGet, lastSet, committed, crashes>>
  /\ UNCHANGED <<tiling, xferVars, orchVars, auxVars>>

\* an IsStale call
IsStale(key, maxAge) ==
  /\ stale' = [stale EXCEPT !.valid = TRUE, !.key = key, !.maxAge = maxAge,
                            !.at = now, !.expect = stale.wrote[key],
                            !.result = CacheIsStale(files, key, maxAge, now)]
  /\ UNCHANGED <<cacheVars, tiling, xferVars, orchVars>>
  /\ UNCHANGED <<sink, bit, fleet, clr, video, pool, moreVars>>

StaleNext ==
  \/ \E key \in CacheKeys : StaleSet(key, 1)
  \/ Tick
  \/ \E key \in CacheKeys, maxAge \in 0..MaxAgeBound : IsStale(key, maxAge)

SpecStale == StaleInit /\ [][StaleNext]_vars

\* C21: IsStale(key, maxAge) is true exactly when no entry was stored for
\* key or the entry is older than maxAge (strictly): with the clock in half
\* seconds, an entry written at t0 with maxAge 2 is not stale at t0 + 1 and
\* stale at t0 + 3
Staleness ==
  stale.valid =>
    (stale.result <=>
       (~stale.expect.valid \/ stale.at - stale.expect.data > stale.maxAge))

\* ------------------------------------------------------------------------
\* Cache.Clear under Set calls
\* ------------------------------------------------------------------------
SubdirSet == {Subdirs[i] : i \in 1..Len(Subdirs)}

\* the files of one partition
PartitionFiles(fs, d) == {p \in DOMAIN fs : p[1] = d}

ClearInit ==
  /\ files = EmptyFS
  /\ now = 0
  /\ setOp = NoOp
  /\ lastGet = NoGet
  /\ lastSet = [k \in CacheKeys |-> NoValue]
  /\ committed = EmptyFS
  /\ crashes = 0
  /\ TilingIdle
  /\ XferIdle
  /\ OrchIdle
  /\ AuxIdle

\* a Set call that returns nil: MkdirAll(dirPath), then the entry is written
ClearSet(key, data) ==
  /\ clr.pc = "idle"
  /\ files' = CacheSet(files, key, data, now)
  /\ lastSet' = [lastSet EXCEPT ![key] = [valid |-> TRUE, data |-> data]]
  /\ clr' = [clr EXCEPT !.dirs = @ \cup {SubdirOf(NormalizeKey(key))},
                        !.last = key]
  /\ UNCHANGED <<now, setOp, lastGet, committed, crashes>>
  /\ UNCHANGED <<tiling, xferVars, orchVars>>
  /\ UNCHANGED <<sink, bit, fleet, stale, video, pool, moreVars>>

\* Clear recreates each of the three partitions
MkdirSteps == Len(Subdirs)

\* Clear: lock; os.RemoveAll(c.BasePath)
ClearRemove ==
  /\ clr.pc = "idle"
  /\ files' = EmptyFS
  /\ lastSet' = [k \in CacheKeys |-> NoValue]
  /\ clr' = [clr EXCEPT !.pc = "mkdir", !.i = 1, !.dirs = {},
                        !.before = @ \cup {k \in CacheKeys : lastSet[k].valid},
                        !.last = <<>>, !.ret = "none"]
  /\ UNCHANGED <<now, setOp, lastGet, committed, crashes>>
  /\ UNCHANGED <<tiling, xferVars, orchVars>>
  /\ UNCHANGED <<sink, bit, fleet, stale, video, pool, moreVars>>

\* Clear: the loop over dirs; os.MkdirAll succeeds or fails; after the last
\* one, or on a failure, Clear returns and unlocks
ClearMkdir ==
  /\ clr.pc = "mkdir"
  /\ \/ /\ clr.i <= MkdirSteps
        /\ clr' = [clr EXCEPT !.dirs = @ \cup {Subdirs[clr.i]}, !.i = @ + 1]
     \/ /\ clr.i <= MkdirSteps
        /\ clr' = [clr EXCEPT !.pc = "idle", !.ret = "err"]
     \/ /\ clr.i > MkdirSteps
        /\ clr' = [clr EXCEPT !.pc = "idle", !.ret = "nil"]
  /\ UNCHANGED <<cacheVars, tiling, xferVars, orchVars>>
  /\ UNCHANGED <<sink, bit, fleet, stale, video, pool, moreVars>>

ClearNext ==
  \/ \E key \in CacheKeys, data \in CacheValues : ClearSet(key, data)
  \/ ClearRemove
  \/ ClearMkdir

SpecClear == ClearInit /\ [][ClearNext]_vars

\* C22: once Clear has returned nil, and until the next Set, Get finds none
\* of the keys set before and reports no error, and the three partitions
\* exist and are empty; a Set after the Clear followed by Get of the same
\* key finds the value
ClearContract ==
  (clr.pc = "idle" /\ clr.ret = "nil") =>
    /\ clr.last = <<>> =>
         /\ \A key \in clr.before :
              LET r == CacheGet(files, key) IN ~r.found /\ ~r.err
         /\ clr.dirs = SubdirSet
         /\ \A d \in SubdirSet : PartitionFiles(files, d) = {}
    /\ clr.last # <<>> =>
         LET r == CacheGet(files, clr.last) IN
           /\ r.found
           /\ ~r.err
           /\ r.data = lastSet[clr.last].data

\* ------------------------------------------------------------------------
\* Client.DownloadVideo: the choice between the progressive transfer and
\* the external remux process (ffmpeg), in both Client implementations of
\* the repository: the one with downloadWithChunks ("chunked") and the one
\* with downloadProgressiveVideo ("single")
\* ------------------------------------------------------------------------
Versions == {"chunked", "single"}

\* one entry of config.Request.Files.Progressive: Quality is "<q>p", or a
\* string Sscanf("%dp") rejects (q = -1); URL is empty or not
ProgressiveEntries == [q : (0..MaxQuality) \cup {0 - 1}, url : {"", "u"}]

RECURSIVE ProgressiveLists(_)
ProgressiveLists(n) ==
  IF n = 0 THEN {<<>>}
  ELSE ProgressiveLists(n - 1)
         \cup {Append(l, e) : l \in ProgressiveLists(n - 1), e \in ProgressiveEntries}

\* HLS.DefaultCDN / Dash.DefaultCDN: empty ("none"), not a key of Cdns
\* ("nocdn"), a cdn with an empty URL ("nourl"), or a cdn with a URL ("ok")
StreamForms == {"none", "nocdn", "nourl", "ok"}

\* the loop over the progressive entries: an error at the first quality that
\* does not parse, else the URL of the first entry of the highest quality > 0
RECURSIVE BestProgressive(_, _, _, _)
BestProgressive(progs, i, bestURL, bestQuality) ==
  IF i > Len(progs) THEN [err |-> FALSE, url |-> bestURL]
  ELSE IF progs[i].q < 0 THEN [err |-> TRUE, url |-> ""]
  ELSE IF progs[i].q > bestQuality
       THEN BestProgressive(progs, i + 1, progs[i].url, progs[i].q)
       ELSE BestProgressive(progs, i + 1, bestURL, bestQuality)

\* downloadHLSVideo / downloadDashVideo: cmd.Run() decides
DownloadHLSVideo(exit, out) == IF exit # 0 THEN "err" ELSE "ok"

\* downloadWithFFmpeg: cmd.Wait(), then os.Stat and the size check
DownloadWithFFmpeg(exit, out) ==
  IF exit # 0 THEN "err"
  ELSE IF ~out.exists THEN "err"
  ELSE IF out.size < MinRemuxSize THEN "err"
  ELSE "ok"

VideoInit ==
  /\ files = EmptyFS
  /\ now = 0
  /\ setOp = NoOp
  /\ lastGet = NoGet
  /\ lastSet = [k \in CacheKeys |-> NoValue]
  /\ committed = EmptyFS
  /\ crashes = 0
  /\ TilingIdle
  /\ XferIdle
  /\ OrchIdle
  /\ MoreIdle
  /\ MoreIdle
  /\ sink = IdleSink
  /\ bit = IdleBit
  /\ fleet = IdleFleet
  /\ stale = IdleStale
  /\ clr = IdleClr
  /\ pool = IdlePool
  /\ \E ver \in Versions, progs \in ProgressiveLists(MaxProgressive),
        hls \in StreamForms, dash \in StreamForms :
       video = [IdleVideo EXCEPT !.pc = "select", !.ver = ver, !.prog = progs,
                                 !.hls = hls, !.dash = dash]

\* DownloadVideo: the progressive entries are examined
SelectStrategy ==
  /\ video.pc = "select"
  /\ LET b == BestProgressive(video.prog, 1, "", 0) IN
       video' = IF video.prog # <<>> /\ b.err
                THEN [video EXCEPT !.pc = "done", !.result = "err"]
                ELSE IF video.prog # <<>> /\ b.url # ""
                THEN [video EXCEPT !.pc = "xfer"]
                ELSE [video EXCEPT !.pc = "fallback"]
  /\ UNCHANGED <<cacheVars, tiling, xferVars, orchVars>>
  /\ UNCHANGED <<sink, bit, fleet, stale, clr, pool, moreVars>>

\* the progressive transfer returns: downloadWithChunks, whose result is
\* returned, or downloadProgressiveVideo, whose error is dropped
ProgressiveTransfer ==
  /\ video.pc = "xfer"
  /\ \E r \in {"ok", "err"} :
       video' = IF video.ver = "chunked" \/ r = "ok"
                THEN [video EXCEPT !.pc = "done", !.xfer = r, !.result = r]
                ELSE [video EXCEPT !.pc = "fallback", !.xfer = r]
  /\ UNCHANGED <<cacheVars, tiling, xferVars, orchVars>>
  /\ UNCHANGED <<sink, bit, fleet, stale, clr, pool, moreVars>>

\* the HLS stream, then (chunked implementation only) the DASH stream
Fallback ==
  /\ video.pc = "fallback"
  /\ video' = IF video.hls = "ok"
              THEN [video EXCEPT !.pc = "remux", !.remux = "hls"]
              ELSE IF video.ver = "chunked" /\ video.dash = "ok"
              THEN [video EXCEPT !.pc = "remux", !.remux = "dash"]
              ELSE [video EXCEPT !.pc = "done", !.result = "err"]
  /\ UNCHANGED <<cacheVars, tiling, xferVars, orchVars>>
  /\ UNCHANGED <<sink, bit, fleet, stale, clr, pool, moreVars>>

\* ffmpeg ends with an exit status, having left an output file or not
Remux ==
  /\ video.pc = "remux"
  /\ \E exit \in 0..1, exists \in BOOLEAN, size \in 0..MaxRemuxSize :
       /\ exists \/ size = 0
       /\ LET out == [exists |-> exists, size |-> size] IN
          video' = [video EXCEPT !.pc = "done", !.exit = exit, !.out = out,
                      !.result = IF video.ver = "chunked"
                                 THEN DownloadHLSVideo(exit, out)
                                 ELSE DownloadWithFFmpeg(exit, out)]
  /\ UNCHANGED <<cacheVars, tiling, xferVars, orchVars>>
  /\ UNCHANGED <<sink, bit, fleet, stale, clr, pool, moreVars>>

VideoNext ==
  \/ SelectStrategy
  \/ ProgressiveTransfer
  \/ Fallback
  \/ Remux

SpecVideo == VideoInit /\ [][VideoNext]_vars

\* the descriptor offers a progressive URL DownloadVideo selects
UsableProgressive ==
  LET b == BestProgressive(video.prog, 1, "", 0) IN
    video.prog # <<>> /\ ~b.err /\ b.url # ""

\* C23: the remux process is started only when the descriptor offers no
\* usable progressive URL; with one, the outcome of DownloadVideo is the
\* outcome of the progressive transfer, and a failed transfer never leads
\* to the remux process
StrategySelection ==
  /\ video.remux # "none" => ~UsableProgressive
  /\ (video.pc = "done" /\ UsableProgressive) => video.result = video.xfer
  /\ video.xfer = "err" => video.remux = "none"

\* C25: the remux transfer succeeds only if the process exited with status
\* zero and the destination file exists with at least MinRemuxSize bytes
RemuxOutcome ==
  (video.pc = "done" /\ video.remux # "none") =>
    (video.result = "ok" <=>
       (video.exit = 0 /\ video.out.exists /\ video.out.size >= MinRemuxSize))

\* C24: a tryDownload that fails before the chunk tasks start (the
\* descriptor request or the HEAD probe failed) neither creates nor resizes
\* the destination file and starts no chunk task; for a resource whose
\* probe reports length 0 the file is never created and no range request
\* is ever issued
ProbeContract ==
  /\ [](\A w \in Workers :
          (worker[w].ep \in Episodes /\ srcSize[worker[w].ep] = 0) =>
            /\ ~disk[worker[w].ep].exists
            /\ chunks[worker[w].ep] = <<>>
            /\ worker[w].pc # "chunks"
            /\ worker[w].pc = "send" => worker[w].err)
  /\ [][\A w \in Workers :
          (worker[w].pc = "try" /\ worker'[w].pc # "chunks"
             /\ worker'[w] # worker[w] /\ TryFailed(worker'[w]))
            => (disk' = disk /\ chunks' = chunks)]_vars

\* every attempt for a resource of length 0 failed at the probe
WitnessProbeContract ==
  \E w \in Workers :
    /\ worker[w].pc = "send"
    /\ worker[w].err
    /\ srcSize[worker[w].ep] = 0
    /\ ~disk[worker[w].ep].exists

\* C26: while downloadWithChunks runs and when it returns, no byte written
\* to the destination file is lost and the file never shrinks; when it
\* returns an error because a chunk exhausted its retries the file is
\* still there with the same size and the same bytes, among them the whole
\* range of every chunk that was fetched in full
PartialFileKept ==
  [][\A w \in Workers :
       worker[w].pc = "chunks" =>
         LET e == worker[w].ep IN
           /\ disk[e].filled \subseteq disk'[e].filled
           /\ disk'[e].size >= disk[e].size
           /\ (worker'[w].pc # "chunks" /\ TryFailed(worker'[w])) =>
                /\ disk'[e].exists
                /\ disk'[e].size = disk[e].size
                /\ disk'[e].filled = disk[e].filled
                /\ \A k \in 1..Len(chunks[e]) :
                     (chunks[e][k].oks = 1 /\ ~chunks[e][k].short) =>
                       (chunks[e][k].start..(chunks[e][k].end - 1))
                         \subseteq disk'[e].filled]_vars

\* a call returned an error and left a file in which a later chunk is
\* written and the first byte is not
WitnessPartialFileKept ==
  \E w \in Workers :
    /\ worker[w].pc = "try" /\ worker[w].exh
    /\ disk[worker[w].ep].exists
    /\ ~disk[worker[w].ep].open
    /\ disk[worker[w].ep].filled # {}
    /\ 0 \notin disk[worker[w].ep].filled

\* C27: the offsets a downloadChunk call for the chunk [start, end) writes
\* lie inside [start, end), whatever the length of the body
WritesInsideChunk ==
  [][\A e \in Episodes : \A k \in 1..Len(chunks[e]) :
       (chunks[e][k].pc = "fetch" /\ Len(chunks'[e]) = Len(chunks[e])
          /\ chunks'[e][k].pc # "fetch")
         => (disk'[e].filled \ disk[e].filled)
              \subseteq (chunks[e][k].start..(chunks[e][k].end - 1))]_vars

\* C28: a run started with the same slug as the run before it loads the
\* ledger that run left in the store
LedgerKeyConsistency ==
  [][(run' = run + 1 /\ run >= 1 /\ slug' = slug)
       => ledger' = PersistedLedger]_vars

\* C29: the set of ids in the persisted ledger of the series only grows
LedgerMonotonic ==
  [][PersistedLedger \subseteq PersistedLedger']_vars

\* ------------------------------------------------------------------------
\* downloadWithChunks: the buffer pool (sync.Pool) and the chunk goroutines
\* that take a buffer from it
\* ------------------------------------------------------------------------
PoolTasks == 1..Len(pool.task)

PoolInit ==
  /\ files = EmptyFS
  /\ now = 0
  /\ setOp = NoOp
  /\ lastGet = NoGet
  /\ lastSet = [k \in CacheKeys |-> NoValue]
  /\ committed = EmptyFS
  /\ crashes = 0
  /\ TilingIdle
  /\ XferIdle
  /\ OrchIdle
  /\ MoreIdle
  /\ sink = IdleSink
  /\ bit = IdleBit
  /\ fleet = IdleFleet
  /\ stale = IdleStale
  /\ clr = IdleClr
  /\ video = IdleVideo
  /\ \E n \in 1..NumPoolTasks :
       pool = [IdlePool EXCEPT !.task =
                 [t \in 1..n |-> [pc |-> "spawned", buf |-> 0, retry |-> 0,
                                  failed |-> FALSE, put |-> 0, slept |-> 0]]]

\* the goroutines between limiter <- struct{}{} and <-limiter
PoolHolding == {t \in PoolTasks : pool.task[t].pc \in {"held", "run", "exit", "put"}}

\* limiter <- struct{}{}
PoolAcquire(t) ==
  /\ pool.task[t].pc = "spawned"
  /\ Cardinality(PoolHolding) < MaxChunkWorkers
  /\ pool' = [pool EXCEPT !.task[t].pc = "held"]
  /\ UNCHANGED <<cacheVars, tiling, xferVars, orchVars>>
  /\ UNCHANGED <<sink, bit, fleet, stale, clr, video, moreVars>>

\* the buffers that exist: idle in the pool or held by a goroutine
PoolLive == pool.free \cup {pool.task[t].buf : t \in PoolTasks}

\* New: make([]byte, MemoryBuffer), a buffer distinct from every live one
NewBuffer == CHOOSE b \in 1..(NumPoolTasks + 1) : b \notin PoolLive

\* bufferPool.Get(): an item is removed from the pool and returned, or New
\* makes a fresh buffer
PoolGet(t) ==
  /\ pool.task[t].pc = "held"
  /\ \/ \E b \in pool.free :
          pool' = [pool EXCEPT !.task[t].pc = "run", !.task[t].buf = b,
                               !.free = @ \ {b}]
     \/ pool' = [pool EXCEPT !.task[t].pc = "run",
                             !.task[t].buf = NewBuffer]
  /\ UNCHANGED <<cacheVars, tiling, xferVars, orchVars>>
  /\ UNCHANGED <<sink, bit, fleet, stale, clr, video, moreVars>>

\* time.Second, in seconds
Second == 1

\* time.Sleep(time.Second) after the failed attempt number retry (from 0)
RetryDelay(retry) == Second

\* one downloadChunk call with the buffer returns; the retry loop goes on
\* after the sleep, ends with a success or ends with the retries exhausted
PoolFetch(t) ==
  /\ pool.task[t].pc = "run"
  /\ \E err \in BOOLEAN :
       pool' = [pool EXCEPT !.task[t] =
                  IF ~err THEN [@ EXCEPT !.pc = "exit", !.retry = 0,
                                         !.slept = 0]
                  ELSE IF RetryAgain(@.retry + 1)
                       THEN [@ EXCEPT !.retry = @ + 1,
                                      !.slept = RetryDelay(pool.task[t].retry)]
                       ELSE [@ EXCEPT !.pc = "exit", !.retry = 0,
                                      !.slept = 0, !.failed = TRUE]]
  /\ UNCHANGED <<cacheVars, tiling, xferVars, orchVars>>
  /\ UNCHANGED <<sink, bit, fleet, stale, clr, video, moreVars>>

\* a Put that only runs after a success
PutsBuffer_SuccessOnly(failed) == ~failed

\* defer bufferPool.Put(buffer): runs on every return of the goroutine
PutsBuffer(failed) == TRUE

\* the goroutine returns: the deferred Put
PoolPut(t) ==
  /\ pool.task[t].pc = "exit"
  /\ pool' = IF PutsBuffer(pool.task[t].failed)
             THEN [pool EXCEPT !.task[t].pc = "put",
                               !.task[t].put = pool.task[t].buf,
                               !.task[t].buf = 0,
                               !.free = @ \cup {pool.task[t].buf}]
             ELSE [pool EXCEPT !.task[t].pc = "put"]
  /\ UNCHANGED <<cacheVars, tiling, xferVars, orchVars>>
  /\ UNCHANGED <<sink, bit, fleet, stale, clr, video, moreVars>>

\* the deferred <-limiter and wg.Done()
PoolRelease(t) ==
  /\ pool.task[t].pc = "put"
  /\ pool' = [pool EXCEPT !.task[t].pc = "done"]
  /\ UNCHANGED <<cacheVars, tiling, xferVars, orchVars>>
  /\ UNCHANGED <<sink, bit, fleet, stale, clr, video, moreVars>>

\* the runtime drops an idle item of the pool (garbage collection)
PoolDrop ==
  /\ \E b \in pool.free : pool' = [pool EXCEPT !.free = @ \ {b}]
  /\ UNCHANGED <<cacheVars, tiling, xferVars, orchVars>>
  /\ UNCHANGED <<sink, bit, fleet, stale, clr, video, moreVars>>

PoolNext ==
  \/ \E t \in PoolTasks : PoolAcquire(t)
  \/ \E t \in PoolTasks : PoolGet(t)
  \/ \E t \in PoolTasks : PoolFetch(t)
  \/ \E t \in PoolTasks : PoolPut(t)
  \/ \E t \in PoolTasks : PoolRelease(t)
  \/ PoolDrop

SpecPool == PoolInit /\ [][PoolNext]_vars

\* the goroutines that hold a buffer taken from the pool
CheckedOut == {t \in PoolTasks : pool.task[t].buf # 0}

\* C30: no buffer is held by two chunk goroutines or lies in the pool while
\* held, at most MaxChunkWorkers buffers are checked out, and a goroutine
\* that has returned, after a success or after its retries were exhausted,
\* has put its buffer back
BufferExclusivity ==
  /\ \A t, u \in CheckedOut : pool.task[t].buf = pool.task[u].buf => t = u
  /\ \A t \in CheckedOut : pool.task[t].buf \notin pool.free
  /\ Cardinality(CheckedOut) <= MaxChunkWorkers
  /\ \A t \in PoolTasks :
       pool.task[t].pc \in {"put", "done"} =>
         (pool.task[t].buf = 0 /\ pool.task[t].put # 0)

\* MaxChunkWorkers buffers are checked out, one of them taken from the pool
\* after a goroutine whose retries were exhausted had put it back
WitnessBufferExclusivity ==
  /\ Cardinality(CheckedOut) = MaxChunkWorkers
  /\ \E t \in PoolTasks, u \in CheckedOut :
       /\ pool.task[t].pc = "done"
       /\ pool.task[t].failed
       /\ pool.task[t].put = pool.task[u].buf

\* C31: the delay a chunk goroutine waits before retry attempt n+1 is n times
\* the base delay, n being the number of attempts that have failed
LinearRetryDelay ==
  [][\A t \in PoolTasks :
       (pool.task[t].pc = "run" /\ pool'.task[t].pc = "run"
          /\ pool'.task[t].retry = pool.task[t].retry + 1)
       => pool'.task[t].slept = pool'.task[t].retry * Second]_vars

\* ------------------------------------------------------------------------
\* downloadSeriesContent: the worker pool whose jobs are sent by the calling
\* goroutine before it reads any result
\* ------------------------------------------------------------------------
\* the channels are made and the workers started; the caller is about to
\* send the episodes of the chapters
ContentInit ==
  /\ files = EmptyFS
  /\ now = 0
  /\ setOp = NoOp
  /\ lastGet = NoGet
  /\ lastSet = [k \in CacheKeys |-> NoValue]
  /\ committed = EmptyFS
  /\ crashes = 0
  /\ TilingIdle
  /\ XferIdle
  /\ AuxIdle
  /\ worker = [w \in Workers |-> [IdleWorker EXCEPT !.pc = "recv"]]
  /\ results = [buf |-> <<>>, closed |-> FALSE]
  /\ ledger = {}
  /\ queued = {}
  /\ preDone = {}
  /\ preLost = {}
  /\ run = 1
  /\ slug = BareSlug
  /\ main = [IdleMain EXCEPT !.pc = "send"]
  /\ \E n \in 0..NumQueuedEpisodes :
       jobs = [buf |-> <<>>, closed |-> FALSE, toSend |-> SeqOf(1..n)]

\* the caller: jobs <- {episode, d.BasePath}, blocking while the buffer is full
ContentSend ==
  /\ main.pc = "send"
  /\ JobsSend

\* the caller: close(jobs), then go func() { wg.Wait(); close(results) }()
ContentJobsClose ==
  /\ main.pc = "send"
  /\ jobs.toSend = <<>>
  /\ jobs' = [jobs EXCEPT !.closed = TRUE]
  /\ main' = [main EXCEPT !.pc = "results"]
  /\ UNCHANGED <<worker, results, ledger, queued, preDone, preLost, run, slug>>
  /\ UNCHANGED <<xferVars, cacheVars, tiling, auxVars>>

\* a worker: err := d.downloadEpisode(job.outputDir, job.episode)
ContentDownload(w) ==
  /\ worker[w].pc = "try"
  /\ \E err \in BOOLEAN :
       worker' = [worker EXCEPT ![w] = [@ EXCEPT !.pc = "send", !.err = err]]
  /\ UNCHANGED <<main, jobs, results, ledger, queued, preDone, preLost, run, slug>>
  /\ UNCHANGED <<xferVars, cacheVars, tiling, auxVars>>

\* the caller: for result := range results, counting failures and successes
ContentResult ==
  /\ main.pc = "results"
  /\ results.buf # <<>>
  /\ main' = IF Head(results.buf).err
             THEN [main EXCEPT !.failed = @ + 1]
             ELSE [main EXCEPT !.success = @ + 1]
  /\ results' = [results EXCEPT !.buf = Tail(@)]
  /\ UNCHANGED <<worker, jobs, ledger, queued, preDone, preLost, run, slug>>
  /\ UNCHANGED <<xferVars, cacheVars, tiling, auxVars>>

\* the result loop ends on the closed channel; downloadSeriesContent returns
ContentReturn ==
  /\ main.pc = "results"
  /\ results.buf = <<>>
  /\ results.closed
  /\ main' = [main EXCEPT !.pc = "done", !.err = (main.failed > 0)]
  /\ UNCHANGED <<worker, jobs, results, ledger, queued, preDone, preLost, run, slug>>
  /\ UNCHANGED <<xferVars, cacheVars, tiling, auxVars>>

ContentNext ==
  \/ ContentSend
  \/ ContentJobsClose
  \/ \E w \in Workers : WorkerRecv(w)
  \/ \E w \in Workers : ContentDownload(w)
  \/ \E w \in Workers : WorkerSend(w)
  \/ ResultsClose
  \/ ContentResult
  \/ ContentReturn

SpecContent == ContentInit /\ [][ContentNext]_vars

\* every goroutine that can take a step eventually takes one
SpecContentFair == SpecContent /\ WF_vars(ContentNext)

\* C32: downloadSeriesContent returns for every number of episodes: all jobs
\* are sent, every worker exits, the results channel is closed and every
\* result is consumed
ContentTerminates ==
  <>(/\ main.pc = "done"
     /\ jobs.toSend = <<>> /\ jobs.buf = <<>> /\ jobs.closed
     /\ \A w \in Workers : worker[w].pc = "exit"
     /\ results.closed /\ results.buf = <<>>)

\* ------------------------------------------------------------------------
\* DownloadSeries: the worker pool alone, downloadEpisode reduced to its
\* outcome, for episode counts beyond the capacity of the channels
\* ------------------------------------------------------------------------
\* the episodes not marked complete are queued (at least one), the channels
\* are made, the workers, the sender and the closer are started
SeriesPoolInit ==
  /\ files = EmptyFS
  /\ now = 0
  /\ setOp = NoOp
  /\ lastGet = NoGet
  /\ lastSet = [k \in CacheKeys |-> NoValue]
  /\ committed = EmptyFS
  /\ crashes = 0
  /\ TilingIdle
  /\ XferIdle
  /\ AuxIdle
  /\ worker = [w \in Workers |-> [IdleWorker EXCEPT !.pc = "recv"]]
  /\ results = [buf |-> <<>>, closed |-> FALSE]
  /\ ledger = {}
  /\ preDone = {}
  /\ preLost = {}
  /\ run = 1
  /\ slug = BareSlug
  /\ main = [IdleMain EXCEPT !.pc = "results"]
  /\ \E n \in 1..NumQueuedEpisodes :
       /\ queued = 1..n
       /\ jobs = [buf |-> <<>>, closed |-> FALSE, toSend |-> SeqOf(1..n)]

SeriesPoolNext ==
  \/ JobsSend
  \/ JobsClose
  \/ \E w \in Workers : WorkerRecv(w)
  \/ \E w \in Workers : ContentDownload(w)
  \/ \E w \in Workers : WorkerSend(w)
  \/ ResultsClose
  \/ ProcessResult
  \/ Finish

SpecSeriesPool == SeriesPoolInit /\ [][SeriesPoolNext]_vars

\* every goroutine that can take a step eventually takes one
SpecSeriesPoolFair == SpecSeriesPool /\ WF_vars(SeriesPoolNext)

\* the episodes held by the workers, and the episodes of the buffered results
TakenEpisodes == {worker[w].ep : w \in {v \in Workers : worker[v].pc \in {"try", "send"}}}
ResultEpisodes == {results.buf[i].ep : i \in 1..Len(results.buf)}
WaitingEpisodes == {(jobs.toSend \o jobs.buf)[i] : i \in 1..(Len(jobs.toSend) + Len(jobs.buf))}

\* C33: in the worker pool of DownloadSeries every queued episode is, at any
\* moment, waiting to be taken, held by exactly one worker, in exactly one
\* buffered result or counted by the result loop; the results channel is
\* closed only after every worker has exited, so nothing is sent on the
\* closed channel; and the result loop ends with every episode counted
SeriesPoolTerminates ==
  /\ [](/\ WaitingEpisodes \cap TakenEpisodes = {}
        /\ WaitingEpisodes \cap ResultEpisodes = {}
        /\ TakenEpisodes \cap ResultEpisodes = {}
        /\ WaitingEpisodes \cup TakenEpisodes \cup ResultEpisodes \subseteq queued
        /\ Cardinality(WaitingEpisodes) = Len(jobs.toSend) + Len(jobs.buf)
        /\ Cardinality(TakenEpisodes) =
             Cardinality({w \in Workers : worker[w].pc \in {"try", "send"}})
        /\ Cardinality(ResultEpisodes) = Len(results.buf)
        /\ Cardinality(WaitingEpisodes) + Cardinality(TakenEpisodes)
             + Cardinality(ResultEpisodes) + main.success + main.failed
             = Cardinality(queued)
        /\ (results.closed =>
              (jobs.closed /\ \A w \in Workers : worker[w].pc = "exit"))
        /\ (main.pc = "done" =>
              (results.closed /\ results.buf = <<>>
                 /\ main.success + main.failed = Cardinality(queued))))
  /\ <>(main.pc = "done")

\* more episodes were queued than the channels and the workers hold together:
\* the sender and both workers are blocked on full channels, and the result
\* loop later ends
WitnessSeriesPoolTerminates ==
  /\ Cardinality(queued) > JobBufferSize + ResultsBufferSize + MaxEpisodeWorkers
  /\ jobs.toSend # <<>>
  /\ Len(jobs.buf) = JobBufferSize
  /\ Len(results.buf) = ResultsBufferSize
  /\ \A w \in Workers : worker[w].pc = "send"

\* ------------------------------------------------------------------------
\* downloadWithChunks: the byte count handed to the progress bar
\* ------------------------------------------------------------------------
\* progressbar.NewOptions64(fileSize, ...) and the chunk goroutines; nothing
\* has been reported yet
BarInit ==
  /\ files = EmptyFS
  /\ now = 0
  /\ setOp = NoOp
  /\ lastGet = NoGet
  /\ lastSet = [k \in CacheKeys |-> NoValue]
  /\ committed = EmptyFS
  /\ crashes = 0
  /\ TilingIdle
  /\ XferIdle
  /\ OrchIdle
  /\ sink = IdleSink
  /\ bit = IdleBit
  /\ fleet = IdleFleet
  /\ stale = IdleStale
  /\ clr = IdleClr
  /\ video = IdleVideo
  /\ pool = IdlePool
  /\ BarOthersIdle
  /\ \E size \in 1..MaxBarSize :
       bar = [total |-> size, reported |-> 0,
              task |-> [k \in 1..NumChunks(size, ChunkSize) |->
                          [start |-> ComputeChunks(size, ChunkSize)[k].start,
                           end |-> ComputeChunks(size, ChunkSize)[k].end,
                           pc |-> "run", retry |-> 0]]]

\* one downloadChunk call of a chunk goroutine returns: every Read of n bytes
\* was followed by WriteAt and bar.Add64(n); the retry loop goes on or ends
BarFetch(k) ==
  /\ bar.task[k].pc = "run"
  /\ LET c == bar.task[k] IN
     \E resp \in Responses(c.end - c.start) :
       LET r == DownloadChunk(c.start, c.end, resp) IN
         bar' = [bar EXCEPT
                   !.reported = @ + Cardinality(r.offs),
                   !.task[k] = IF r.err /\ RetryAgain(c.retry + 1)
                               THEN [c EXCEPT !.retry = @ + 1]
                               ELSE [c EXCEPT !.pc = "done"]]
  /\ UNCHANGED <<cacheVars, tiling, xferVars, orchVars>>
  /\ UNCHANGED <<sink, bit, fleet, stale, clr, video, pool, notBar>>

BarNext == \E k \in 1..Len(bar.task) : BarFetch(k)

SpecBar == BarInit /\ [][BarNext]_vars

\* C34: the cumulative byte count reported to the progress bar of a
\* downloadWithChunks call is at most the total size
ProgressWithinTotal == bar.reported <= bar.total

\* ------------------------------------------------------------------------
\* DownloadAllByTopics: topic goroutines, the download mutex, BasePath and
\* the map of downloaded series
\* ------------------------------------------------------------------------
Slugs == 1..NumSlugs

\* the series a topic page lists
SeriesLists ==
  {<<>>} \cup {<<s>> : s \in Slugs}
         \cup {p \in Slugs \X Slugs : p[1] # p[2]}

\* filepath.Join(topicsDir, topicFolderName, seriesFolderName)
SeriesDir(t, s) == <<t, s>>

NewTopic == [pc |-> "new", series |-> <<>>, i |-> 0, failures |-> 0]

TopicsInit ==
  /\ files = EmptyFS
  /\ now = 0
  /\ setOp = NoOp
  /\ lastGet = NoGet
  /\ lastSet = [k \in CacheKeys |-> NoValue]
  /\ committed = EmptyFS
  /\ crashes = 0
  /\ TilingIdle
  /\ XferIdle
  /\ OrchIdle
  /\ sink = IdleSink
  /\ bit = IdleBit
  /\ fleet = IdleFleet
  /\ stale = IdleStale
  /\ clr = IdleClr
  /\ video = IdleVideo
  /\ pool = IdlePool
  /\ TopicsOthersIdle
  /\ \E n \in 1..NumTopics :
       topics = [IdleTopics EXCEPT !.pc = "page",
                                   !.task = [t \in 1..n |-> NewTopic]]

\* originalBasePath := d.BasePath; the browse page is fetched and parsed and
\* the topics directory made, or one of these fails and the call returns
FetchPage ==
  /\ topics.pc = "page"
  /\ \E ok \in BOOLEAN :
       topics' = IF ok
                 THEN [topics EXCEPT !.pc = "spawn", !.next = 1,
                                     !.original = topics.basePath]
                 ELSE [topics EXCEPT !.pc = "returned", !.err = TRUE,
                                     !.original = topics.basePath]
  /\ UNCHANGED <<cacheVars, tiling, xferVars, orchVars>>
  /\ UNCHANGED <<sink, bit, fleet, stale, clr, video, pool, notTopics>>

\* wg.Add(1); sem <- true; go func(idx, topic)
SpawnTopic ==
  /\ topics.pc = "spawn"
  /\ topics.next <= Len(topics.task)
  /\ topics.sem < TopicSemSize
  /\ topics' = [topics EXCEPT !.sem = @ + 1, !.next = @ + 1,
                              !.task[topics.next].pc = "start"]
  /\ UNCHANGED <<cacheVars, tiling, xferVars, orchVars>>
  /\ UNCHANGED <<sink, bit, fleet, stale, clr, video, pool, notTopics>>

\* the position of a topic goroutine after the series of index i
AfterSeries(tk) ==
  [tk EXCEPT !.i = @ + 1,
             !.pc = IF tk.i + 1 > Len(tk.series) THEN "count" ELSE "lock"]

\* d.getTopicSeries: an error ends the goroutine with the topic counted as
\* failed, a list starts the loop over its series
GetTopicSeries(t) ==
  /\ topics.task[t].pc = "start"
  /\ \/ topics' = [topics EXCEPT !.failedTopics = @ + 1, !.sem = @ - 1,
                                 !.task[t].pc = "done"]
     \/ \E list \in SeriesLists :
          topics' = [topics EXCEPT !.task[t] =
                       AfterSeries([@ EXCEPT !.series = list])]
  /\ UNCHANGED <<cacheVars, tiling, xferVars, orchVars>>
  /\ UNCHANGED <<sink, bit, fleet, stale, clr, video, pool, notTopics>>

\* a mutex that lets every caller in
DownloadMutexFree_NoMutex(holder) == TRUE

\* downloadMutex.Lock() returns
DownloadMutexFree(holder) == holder = 0

\* downloadMutex.Lock(); handleSeriesDownload is called
TopicLock(t) ==
  /\ topics.task[t].pc = "lock"
  /\ DownloadMutexFree(topics.mutex)
  /\ topics' = [topics EXCEPT !.mutex = t, !.task[t].pc = "handle"]
  /\ UNCHANGED <<cacheVars, tiling, xferVars, orchVars>>
  /\ UNCHANGED <<sink, bit, fleet, stale, clr, video, pool, notTopics>>

\* handleSeriesDownload up to downloadSeriesContent: a slug found in
\* downloadedSeries gets a symlink to its directory (or an error) and the
\* call returns; otherwise the series directory is made (or the call returns
\* an error) and BasePath is set to it
HandleSeries(t) ==
  /\ topics.task[t].pc = "handle"
  /\ LET tk == topics.task[t]
         s == tk.series[tk.i] IN
       IF s \in DOMAIN topics.downloaded
       THEN \E ok \in BOOLEAN :
              topics' = [topics EXCEPT
                 !.link = IF ok
                          THEN <<[at |-> SeriesDir(t, s),
                                  to |-> topics.downloaded[s]]>>
                          ELSE @,
                 !.mutex = 0,
                 !.task[t] = AfterSeries([@ EXCEPT !.failures =
                                            IF ok THEN @ ELSE @ + 1])]
       ELSE \E ok \in BOOLEAN :
              topics' = IF ok
                        THEN [topics EXCEPT !.basePath = SeriesDir(t, s),
                                            !.task[t].pc = "download"]
                        ELSE [topics EXCEPT
                                !.mutex = 0,
                                !.task[t] = AfterSeries([@ EXCEPT !.failures = @ + 1])]
  /\ UNCHANGED <<cacheVars, tiling, xferVars, orchVars>>
  /\ UNCHANGED <<sink, bit, fleet, stale, clr, video, pool, notTopics>>

\* a map that records the series whatever the download returned
RecordSeries_Always(downloaded, s, dir, err) ==
  [x \in (DOMAIN downloaded) \cup {s} |-> IF x = s THEN dir ELSE downloaded[x]]

\* downloadedSeries[series.Slug] = seriesDir, reached only when
\* downloadSeriesContent returned nil
RecordSeries(downloaded, s, dir, err) ==
  IF err THEN downloaded
  ELSE [x \in (DOMAIN downloaded) \cup {s} |-> IF x = s THEN dir ELSE downloaded[x]]

\* downloadSeriesContent returns, handleSeriesDownload returns,
\* downloadMutex.Unlock()
DownloadReturn(t) ==
  /\ topics.task[t].pc = "download"
  /\ LET tk == topics.task[t]
         s == tk.series[tk.i] IN
     \E err \in BOOLEAN :
       topics' = [topics EXCEPT
          !.downloaded = RecordSeries(@, s, SeriesDir(t, s), err),
          !.mutex = 0,
          !.task[t] = AfterSeries([@ EXCEPT !.failures =
                                     IF err THEN @ + 1 ELSE @])]
  /\ UNCHANGED <<cacheVars, tiling, xferVars, orchVars>>
  /\ UNCHANGED <<sink, bit, fleet, stale, clr, video, pool, notTopics>>

\* the topic is counted as failed or completed; the deferred <-sem and
\* wg.Done()
TopicFinish(t) ==
  /\ topics.task[t].pc = "count"
  /\ topics' = [topics EXCEPT
        !.failedTopics = IF topics.task[t].failures > 0 THEN @ + 1 ELSE @,
        !.completedTopics = IF topics.task[t].failures > 0 THEN @ ELSE @ + 1,
        !.sem = @ - 1,
        !.task[t] = [NewTopic EXCEPT !.pc = "done"]]
  /\ UNCHANGED <<cacheVars, tiling, xferVars, orchVars>>
  /\ UNCHANGED <<sink, bit, fleet, stale, clr, video, pool, notTopics>>

\* a return that leaves BasePath as the last series download set it
RestoreBasePath_Keep(original, current) == current

\* d.BasePath = originalBasePath
RestoreBasePath(original, current) == original

\* wg.Wait() returns; BasePath is restored; the summary decides the result
ReturnTopics ==
  /\ topics.pc = "spawn"
  /\ topics.next > Len(topics.task)
  /\ \A t \in 1..Len(topics.task) : topics.task[t].pc = "done"
  /\ topics' = [topics EXCEPT
        !.pc = "returned",
        !.basePath = RestoreBasePath(topics.original, topics.basePath),
        !.err = topics.failedTopics > 0]
  /\ UNCHANGED <<cacheVars, tiling, xferVars, orchVars>>
  /\ UNCHANGED <<sink, bit, fleet, stale, clr, video, pool, notTopics>>

TopicsNext ==
  \/ FetchPage
  \/ SpawnTopic
  \/ \E t \in 1..Len(topics.task) : GetTopicSeries(t)
  \/ \E t \in 1..Len(topics.task) : TopicLock(t)
  \/ \E t \in 1..Len(topics.task) : HandleSeries(t)
  \/ \E t \in 1..Len(topics.task) : DownloadReturn(t)
  \/ \E t \in 1..Len(topics.task) : TopicFinish(t)
  \/ ReturnTopics

SpecTopics == TopicsInit /\ [][TopicsNext]_vars

\* the topic goroutines inside handleSeriesDownload
InHandle == {t \in 1..Len(topics.task) : topics.task[t].pc \in {"handle", "download"}}

\* the topic goroutines that have started and not yet released the semaphore
TopicsRunning == {t \in 1..Len(topics.task) : topics.task[t].pc \notin {"new", "done"}}

\* C35: during DownloadAllByTopics at most TopicSemSize topics are processed
\* at once, at most one handleSeriesDownload is in progress, and while a
\* series download that set BasePath has not returned, BasePath is the
\* directory it set
SerializedSeriesDownload ==
  /\ Cardinality(TopicsRunning) <= TopicSemSize
  /\ Cardinality(InHandle) <= 1
  /\ \A t \in 1..Len(topics.task) :
       topics.task[t].pc = "download" =>
         topics.basePath = SeriesDir(t, topics.task[t].series[topics.task[t].i])

\* two topics are processed at once: one is inside its series download, the
\* other waits for the mutex
WitnessSerializedSeriesDownload ==
  \E t, u \in 1..Len(topics.task) :
    /\ topics.task[t].pc = "download"
    /\ topics.task[u].pc = "lock"
    /\ topics.basePath = SeriesDir(t, topics.task[t].series[topics.task[t].i])

\* C36: when DownloadAllByTopics has returned, after an early error, with
\* failed topics or with none, BasePath is what it was at the call
BasePathRestored ==
  topics.pc = "returned" => topics.basePath = topics.original

\* the call has returned an error for a failed topic after series downloads
\* had set BasePath
WitnessBasePathRestored ==
  /\ topics.pc = "returned"
  /\ topics.err
  /\ topics.failedTopics > 0
  /\ DOMAIN topics.downloaded # {}

AllSeriesInit ==
  /\ files = EmptyFS
  /\ now = 0
  /\ setOp = NoOp
  /\ lastGet = NoGet
  /\ lastSet = [k \in CacheKeys |-> NoValue]
  /\ committed = EmptyFS
  /\ crashes = 0
  /\ TilingIdle
  /\ XferIdle
  /\ OrchIdle
  /\ sink = IdleSink
  /\ bit = IdleBit
  /\ fleet = IdleFleet
  /\ stale = IdleStale
  /\ clr = IdleClr
  /\ video = IdleVideo
  /\ pool = IdlePool
  /\ AllSeriesOthersIdle
  /\ \E n \in 1..NumSeries :
       allSeries = [IdleAllSeries EXCEPT
                      !.pc = "spawn", !.next = 1,
                      !.task = [t \in 1..n |-> [pc |-> "new", res |-> "none"]]]

\* the series goroutines that hold a slot of sem
AllSeriesRunning ==
  {t \in 1..Len(allSeries.task) : allSeries.task[t].pc \in {"run", "counted"}}

\* wg.Add(1); sem <- true; go func(idx, seriesSlug), which calls
\* DownloadSeries
AllSeriesLaunch ==
  /\ allSeries.pc = "spawn"
  /\ allSeries.next <= Len(allSeries.task)
  /\ allSeries.sem < MaxSeriesConcurrent
  /\ allSeries' = [allSeries EXCEPT !.sem = @ + 1, !.next = @ + 1,
                                    !.task[allSeries.next].pc = "run"]
  /\ UNCHANGED <<cacheVars, tiling, xferVars, orchVars>>
  /\ UNCHANGED <<sink, bit, fleet, stale, clr, video, pool, notAllSeries>>

\* DownloadSeries returns: atomic.AddInt32 on failedSeries or on
\* completedSeries
AllSeriesCount(t) ==
  /\ allSeries.task[t].pc = "run"
  /\ \E err \in BOOLEAN :
       allSeries' = [allSeries EXCEPT
          !.failedSeries = IF err THEN @ + 1 ELSE @,
          !.completedSeries = IF err THEN @ ELSE @ + 1,
          !.task[t] = [pc |-> "counted", res |-> IF err THEN "err" ELSE "ok"]]
  /\ UNCHANGED <<cacheVars, tiling, xferVars, orchVars>>
  /\ UNCHANGED <<sink, bit, fleet, stale, clr, video, pool, notAllSeries>>

\* the goroutine returns: the deferred <-sem and wg.Done()
AllSeriesRelease(t) ==
  /\ allSeries.task[t].pc = "counted"
  /\ allSeries' = [allSeries EXCEPT !.sem = @ - 1, !.task[t].pc = "done"]
  /\ UNCHANGED <<cacheVars, tiling, xferVars, orchVars>>
  /\ UNCHANGED <<sink, bit, fleet, stale, clr, video, pool, notAllSeries>>

\* a summary that never reports an error
SummaryError_Never(failed) == FALSE

\* if failed > 0 { return fmt.Errorf(...) }; return nil
SummaryError(failed) == failed > 0

\* wg.Wait() returns; the summary is printed and decides the result
AllSeriesReturn ==
  /\ allSeries.pc = "spawn"
  /\ allSeries.next > Len(allSeries.task)
  /\ \A t \in 1..Len(allSeries.task) : allSeries.task[t].pc = "done"
  /\ allSeries' = [allSeries EXCEPT !.pc = "returned",
                                    !.err = SummaryError(allSeries.failedSeries)]
  /\ UNCHANGED <<cacheVars, tiling, xferVars, orchVars>>
  /\ UNCHANGED <<sink, bit, fleet, stale, clr, video, pool, notAllSeries>>

AllSeriesNext ==
  \/ AllSeriesLaunch
  \/ \E t \in 1..Len(allSeries.task) : AllSeriesCount(t)
  \/ \E t \in 1..Len(allSeries.task) : AllSeriesRelease(t)
  \/ AllSeriesReturn

SpecAllSeries == AllSeriesInit /\ [][AllSeriesNext]_vars

\* the series whose DownloadSeries call returned the given outcome
SeriesWith(res) == {t \in 1..Len(allSeries.task) : allSeries.task[t].res = res}

\* C38: in DownloadAllSeries at most MaxSeriesConcurrent DownloadSeries calls
\* run at once; the counters count every returned series once, as failed or
\* as completed; at the return every slug has been run and counted,
\* whatever the other series returned, and an error is returned exactly
\* when a series failed
SeriesIsolation ==
  /\ Cardinality(AllSeriesRunning) <= MaxSeriesConcurrent
  /\ allSeries.completedSeries = Cardinality(SeriesWith("ok"))
  /\ allSeries.failedSeries = Cardinality(SeriesWith("err"))
  /\ allSeries.pc = "returned" =>
       /\ SeriesWith("none") = {}
       /\ allSeries.completedSeries + allSeries.failedSeries = Len(allSeries.task)
       /\ allSeries.err <=> allSeries.failedSeries > 0

\* the first series failed, later ones were still run and completed, and the
\* call returned an error
WitnessSeriesIsolation ==
  /\ allSeries.pc = "returned"
  /\ Len(allSeries.task) > MaxSeriesConcurrent
  /\ allSeries.task[1].res = "err"
  /\ allSeries.task[Len(allSeries.task)].res = "ok"
  /\ allSeries.err

\* ------------------------------------------------------------------------
\* downloadWithFFmpeg: the started process, its stdout and stderr pipes,
\* the two reader goroutines, barMutex and the caller after cmd.Wait
\* ------------------------------------------------------------------------
\* cmd.Start() succeeded: the process runs and still has lines to write; both
\* reader goroutines are started and the caller is in cmd.Wait()
FfmpegInit ==
  /\ files = EmptyFS
  /\ now = 0
  /\ setOp = NoOp
  /\ lastGet = NoGet
  /\ lastSet = [k \in CacheKeys |-> NoValue]
  /\ committed = EmptyFS
  /\ crashes = 0
  /\ TilingIdle
  /\ XferIdle
  /\ OrchIdle
  /\ sink = IdleSink
  /\ bit = IdleBit
  /\ fleet = IdleFleet
  /\ stale = IdleStale
  /\ clr = IdleClr
  /\ video = IdleVideo
  /\ pool = IdlePool
  /\ FfmpegOthersIdle
  /\ \E o \in 0..MaxFfmpegLines, e \in 0..MaxFfmpegLines :
       ffmpeg = [IdleFfmpeg EXCEPT
                   !.proc = "running", !.outLeft = o, !.errLeft = e,
                   !.errReader = "scan", !.outReader = "scan",
                   !.main = "wait"]

\* the process writes a progress line to stdout; it blocks while the pipe is
\* full
ProcWriteStdout ==
  /\ ffmpeg.proc = "running"
  /\ ffmpeg.outLeft > 0
  /\ ffmpeg.outPipe < MaxPipeLines
  /\ ffmpeg' = [ffmpeg EXCEPT !.outLeft = @ - 1, !.outPipe = @ + 1]
  /\ UNCHANGED <<cacheVars, tiling, xferVars, orchVars>>
  /\ UNCHANGED <<sink, bit, fleet, stale, clr, video, pool, notFfmpeg>>

\* the process writes a log line to stderr; it blocks while the pipe is full
ProcWriteStderr ==
  /\ ffmpeg.proc = "running"
  /\ ffmpeg.errLeft > 0
  /\ ffmpeg.errPipe < MaxPipeLines
  /\ ffmpeg' = [ffmpeg EXCEPT !.errLeft = @ - 1, !.errPipe = @ + 1]
  /\ UNCHANGED <<cacheVars, tiling, xferVars, orchVars>>
  /\ UNCHANGED <<sink, bit, fleet, stale, clr, video, pool, notFfmpeg>>

\* the process has written everything and exits, with status 0 or not
ProcExit ==
  /\ ffmpeg.proc = "running"
  /\ ffmpeg.outLeft = 0
  /\ ffmpeg.errLeft = 0
  /\ \E ok \in BOOLEAN :
       ffmpeg' = [ffmpeg EXCEPT !.proc = "exited", !.exitOk = ok]
  /\ UNCHANGED <<cacheVars, tiling, xferVars, orchVars>>
  /\ UNCHANGED <<sink, bit, fleet, stale, clr, video, pool, notFfmpeg>>

\* scanner.Scan() returns false: the process has exited and the pipe is
\* drained, or cmd.Wait() has closed the read end
PipeEnded(pipe) ==
  /\ ffmpeg.proc = "exited"
  /\ pipe = 0 \/ ffmpeg.main # "wait"

\* the stderr goroutine scans one line; a line whose duration parses is sent
\* on durationFound (capacity 1) and the loop breaks
StderrScan ==
  /\ ffmpeg.errReader = "scan"
  /\ ffmpeg.errPipe > 0
  /\ ~PipeEnded(ffmpeg.errPipe)
  /\ \E parsed \in BOOLEAN :
       ffmpeg' = [ffmpeg EXCEPT
          !.errPipe = @ - 1,
          !.durationFound = IF parsed THEN 1 ELSE @,
          !.errReader = IF parsed THEN "done" ELSE "scan"]
  /\ UNCHANGED <<cacheVars, tiling, xferVars, orchVars>>
  /\ UNCHANGED <<sink, bit, fleet, stale, clr, video, pool, notFfmpeg>>

\* the stderr goroutine ends at the end of the stream
StderrEnd ==
  /\ ffmpeg.errReader = "scan"
  /\ PipeEnded(ffmpeg.errPipe)
  /\ ffmpeg' = [ffmpeg EXCEPT !.errReader = "done"]
  /\ UNCHANGED <<cacheVars, tiling, xferVars, orchVars>>
  /\ UNCHANGED <<sink, bit, fleet, stale, clr, video, pool, notFfmpeg>>

\* the stdout goroutine scans one line
StdoutScan ==
  /\ ffmpeg.outReader = "scan"
  /\ ffmpeg.outPipe > 0
  /\ ~PipeEnded(ffmpeg.outPipe)
  /\ ffmpeg' = [ffmpeg EXCEPT !.outPipe = @ - 1, !.outReader = "select"]
  /\ UNCHANGED <<cacheVars, tiling, xferVars, orchVars>>
  /\ UNCHANGED <<sink, bit, fleet, stale, clr, video, pool, notFfmpeg>>

\* select: a duration waiting on durationFound is received and
\* bar.ChangeMax64 is called under barMutex; default: nothing
StdoutSelect ==
  /\ ffmpeg.outReader = "select"
  /\ ffmpeg.durationFound = 1 => ffmpeg.barMutex = "free"
  /\ ffmpeg' = [ffmpeg EXCEPT !.durationFound = 0, !.outReader = "match"]
  /\ UNCHANGED <<cacheVars, tiling, xferVars, orchVars>>
  /\ UNCHANGED <<sink, bit, fleet, stale, clr, video, pool, notFfmpeg>>

\* barMutex after bar.Set64: if err != nil { return } leaves it locked,
\* otherwise barMutex.Unlock()
AfterSet64(err) == IF err THEN "out" ELSE "free"

\* the line is matched against out_time_ms=(\d+); on a match
\* barMutex.Lock(), bar.Set64(seconds), return on its error, else Unlock
StdoutMatch ==
  /\ ffmpeg.outReader = "match"
  /\ \/ ffmpeg' = [ffmpeg EXCEPT !.outReader = "scan"]
     \/ /\ ffmpeg.barMutex = "free"
        /\ \E err \in BOOLEAN :
             ffmpeg' = [ffmpeg EXCEPT
                !.barMutex = AfterSet64(err),
                !.outReader = IF err THEN "returned" ELSE "scan"]
  /\ UNCHANGED <<cacheVars, tiling, xferVars, orchVars>>
  /\ UNCHANGED <<sink, bit, fleet, stale, clr, video, pool, notFfmpeg>>

\* the stdout goroutine ends at the end of the stream
StdoutEnd ==
  /\ ffmpeg.outReader = "scan"
  /\ PipeEnded(ffmpeg.outPipe)
  /\ ffmpeg' = [ffmpeg EXCEPT !.outReader = "done"]
  /\ UNCHANGED <<cacheVars, tiling, xferVars, orchVars>>
  /\ UNCHANGED <<sink, bit, fleet, stale, clr, video, pool, notFfmpeg>>

\* cmd.Wait() returns once the process has exited: an error is returned at
\* once, otherwise the caller goes on to barMutex.Lock()
FfmpegWait ==
  /\ ffmpeg.main = "wait"
  /\ ffmpeg.proc = "exited"
  /\ ffmpeg' = [ffmpeg EXCEPT
        !.main = IF ffmpeg.exitOk THEN "lock" ELSE "returned",
        !.err = ~ffmpeg.exitOk]
  /\ UNCHANGED <<cacheVars, tiling, xferVars, orchVars>>
  /\ UNCHANGED <<sink, bit, fleet, stale, clr, video, pool, notFfmpeg>>

\* barMutex.Lock(); bar.Finish(), whose error is returned with the mutex
\* held; barMutex.Unlock(); os.Stat and the size check decide the result
FfmpegFinish ==
  /\ ffmpeg.main = "lock"
  /\ ffmpeg.barMutex = "free"
  /\ \E finishErr \in BOOLEAN, statErr \in BOOLEAN :
       ffmpeg' = [ffmpeg EXCEPT
          !.barMutex = IF finishErr THEN "main" ELSE "free",
          !.main = "returned",
          !.err = finishErr \/ statErr]
  /\ UNCHANGED <<cacheVars, tiling, xferVars, orchVars>>
  /\ UNCHANGED <<sink, bit, fleet, stale, clr, video, pool, notFfmpeg>>

FfmpegNext ==
  \/ ProcWriteStdout
  \/ ProcWriteStderr
  \/ ProcExit
  \/ StderrScan
  \/ StderrEnd
  \/ StdoutScan
  \/ StdoutSelect
  \/ StdoutMatch
  \/ StdoutEnd
  \/ FfmpegWait
  \/ FfmpegFinish

SpecFfmpeg == FfmpegInit /\ [][FfmpegNext]_vars

\* the scheduler runs every goroutine that can take a step, and the process
\* runs while it is not blocked on a pipe
SpecFfmpegFair == SpecFfmpeg /\ WF_vars(FfmpegNext)

\* both readers are still in their scan loops
ReadersConsuming ==
  /\ ffmpeg.errReader = "scan"
  /\ ffmpeg.outReader \in {"scan", "select", "match"}

\* C39: while the process can still write, both readers keep consuming; no
\* goroutine has returned with barMutex held while the caller still has to
\* lock it; and once the process has exited, downloadWithFFmpeg returns
RemuxWrapperTerminates ==
  /\ [](ffmpeg.proc = "running" => ReadersConsuming)
  /\ [](ffmpeg.main \in {"wait", "lock"} => ffmpeg.barMutex # "out")
  /\ (ffmpeg.proc = "exited" ~> ffmpeg.main = "returned")

\* ------------------------------------------------------------------------
\* The series-metadata lookup of DownloadSeries and downloadSeriesContent;
\* the clock counts milliseconds
\* ------------------------------------------------------------------------
\* nanoseconds, the unit of time.Duration, in one step of the clock
NanosPerTick == 1000000

\* one day of the clock
Day == 3600 * 24 * 1000

\* IsStale(cacheKey, 3600*24*7): the untyped constant becomes the maxAge
\* parameter, a time.Duration, which counts nanoseconds
MetadataMaxAge == 3600 * 24 * 7

\* time.Since(entry.Timestamp) > maxAge with the age in whole clock steps:
\* age * NanosPerTick > maxAge iff age > maxAge \div NanosPerTick
MaxAgeTicks(maxAge) == maxAge \div NanosPerTick

\* cacheKey: "series_" + the slug without its "series/" prefix, removed
\* twice in DownloadSeries and once in downloadSeriesContent
MetadataKey(fn, seriesSlug) ==
  SeriesUnderscore \o
    (IF fn = "DownloadSeries" THEN CleanSlug(seriesSlug)
     ELSE TrimPrefix(seriesSlug, SeriesSlash))

\* found, err := d.Cache.Get(cacheKey, &seriesData); an error counts as not
\* found; if !found || d.Cache.IsStale(cacheKey, 3600*24*7) { fetch }
NeedsFetch(fs, cacheKey, t) ==
  \/ ~CacheGet(fs, cacheKey).found
  \/ CacheIsStale(fs, cacheKey, MaxAgeTicks(MetadataMaxAge), t)

\* the time between two calls
ClockSteps == {1, 4 * Day}

MetaInit ==
  /\ files = EmptyFS
  /\ now = 0
  /\ setOp = NoOp
  /\ lastGet = NoGet
  /\ lastSet = [k \in CacheKeys |-> NoValue]
  /\ committed = EmptyFS
  /\ crashes = 0
  /\ TilingIdle
  /\ XferIdle
  /\ OrchIdle
  /\ sink = IdleSink
  /\ bit = IdleBit
  /\ fleet = IdleFleet
  /\ stale = IdleStale
  /\ clr = IdleClr
  /\ video = IdleVideo
  /\ pool = IdlePool
  /\ MetaOthersIdle
  /\ meta = IdleMeta

\* time passes between two calls
MetaTick(d) ==
  /\ meta.ticks < MaxMetaTicks
  /\ now' = now + d
  /\ meta' = [meta EXCEPT !.ticks = @ + 1]
  /\ UNCHANGED <<files, setOp, lastGet, lastSet, committed, crashes>>
  /\ UNCHANGED <<tiling, xferVars, orchVars>>
  /\ UNCHANGED <<sink, bit, fleet, stale, clr, video, pool, notMeta>>

\* the metadata part of one call: the lookup, and when it asks for one, the
\* fetch (which may fail) and Cache.Set of the result (which may fail too)
MetadataLookup(fn, seriesSlug) ==
  LET cacheKey == MetadataKey(fn, seriesSlug)
      fetch == NeedsFetch(files, cacheKey, now)
  IN \E fetched \in BOOLEAN, stored \in BOOLEAN :
       LET set == fetch /\ fetched /\ stored IN
       /\ files' = IF set THEN CacheSet(files, cacheKey, 1, now) ELSE files
       /\ meta' = [meta EXCEPT
             !.valid = TRUE, !.fn = fn,
             !.hadEntry = meta.wrote.valid,
             !.age = now - meta.wrote.data,
             !.fetched = fetch,
             !.wrote = IF set THEN [valid |-> TRUE, data |-> now] ELSE @]
  /\ UNCHANGED <<cacheGhost, tiling, xferVars, orchVars>>
  /\ UNCHANGED <<sink, bit, fleet, stale, clr, video, pool, notMeta>>

MetaNext ==
  \/ \E d \in ClockSteps : MetaTick(d)
  \/ \E seriesSlug \in SlugForms : MetadataLookup("DownloadSeries", seriesSlug)
  \/ \E seriesSlug \in SlugForms :
       MetadataLookup("downloadSeriesContent", seriesSlug)

SpecMeta == MetaInit /\ [][MetaNext]_vars

\* 7 days, 3600*24*7 seconds, on the clock
SevenDays == 3600 * 24 * 7 * 1000

\* C40: a lookup that finds an entry written less than 7 days ago issues no
\* fetch, and a lookup fetches only when no entry was written or the entry
\* is older than 7 days
MetadataCacheReuse ==
  meta.valid =>
    /\ (meta.hadEntry /\ meta.age < SevenDays) => ~meta.fetched
    /\ meta.fetched => (~meta.hadEntry \/ meta.age > SevenDays)
====
